---- MODULE Spec2Model ----
(***************************************************************************)
(* Model of the predictive preloading library: component registry,         *)
(* encrypted interaction store, prediction engine, preloader and the       *)
(* start-up sequence of PredictionModel.initialize().                      *)
(*                                                                         *)
(* Numbers.  The code computes with IEEE doubles.  Here every score is an  *)
(* exact rational <<num, den>>.  Time is counted in ticks of one decay     *)
(* half-life (ln 2 / decayLambda ms), so Math.exp(-decayLambda * dt) is    *)
(* 1 / 2^dt; a double underflows to 0 once the exponent leaves its range,  *)
(* which DecayUnderflow stands for (scaled down from 1074 half-lives).     *)
(***************************************************************************)
EXTENDS Integers, Sequences, FiniteSets, TLC

\* ------------------------------------------------------------------ bounds
MaxClock == 2          \* wall clock runs 0..MaxClock ticks
MaxSaves == 2          \* trackInteraction calls that reach saveInteraction
MaxSessions == 2       \* page loads
MaxInFlight == 2       \* saveInteraction calls in flight at once
TicksPerHour == 2      \* ticks in one hour of getHours()
MaxUploads == 2        \* POSTs to /upload-anonymous-data
MaxInstallations == 2  \* browser profiles running the library
DecayUnderflow == 1    \* largest dt (ticks) whose decay is still non-zero

\* --------------------------------------------------------- program constants
historyLength == 2         \* default 100, scaled
maxPatternLength == 2      \* default 5, scaled
minActionsThreshold == 2   \* default 50, scaled
smoothingFactor == <<1, 10>>
weightSequence == <<7, 10>>
weightTime == <<3, 10>>
TieEpsilonInverse == 1000000
HoursPerDay == 24

\* null and undefined; names and ids are sequences of characters
None == << >>

A == <<"A">>
B == <<"B">>
C == <<"C">>
\* the action names the application tracks; C is known to the aggregator only
Actions == {A, B}
c1 == <<"c1">>
c2 == <<"c2">>
Components == {c1, c2}
\* the associateActionWithComponent calls the application makes
Bindings == {<<A, c1>>, <<B, c2>>}

\* ------------------------------------------------------- exact arithmetic
RECURSIVE GCD(_, _)
GCD(a, b) == IF b = 0 THEN a ELSE GCD(b, a % b)

Abs(n) == IF n < 0 THEN -n ELSE n

Norm(n, d) == LET g == GCD(Abs(n), d) IN IF n = 0 THEN <<0, 1>> ELSE <<n \div g, d \div g>>

Zero == <<0, 1>>
Int2R(n) == <<n, 1>>

RAdd(x, y) == LET g == GCD(x[2], y[2])
              IN Norm(x[1] * (y[2] \div g) + y[1] * (x[2] \div g), (x[2] \div g) * y[2])

RSub(x, y) == RAdd(x, <<-y[1], y[2]>>)

RMul(x, y) == LET a == Norm(x[1], y[2])
                  b == Norm(y[1], x[2])
              IN <<a[1] * b[1], a[2] * b[2]>>

RDiv(x, y) == RMul(x, <<y[2], y[1]>>)

RECURSIVE RLess(_, _)
RLess(x, y) ==
    LET qx == x[1] \div x[2]
        qy == y[1] \div y[2]
        rx == x[1] % x[2]
        ry == y[1] % y[2]
    IN IF qx # qy THEN qx < qy
       ELSE IF ry = 0 THEN FALSE
       ELSE IF rx = 0 THEN TRUE
       ELSE RLess(<<y[2], ry>>, <<x[2], rx>>)

RAbs(x) == <<Abs(x[1]), x[2]>>

\* ------------------------------------------- insertion-ordered Map objects
EmptyMap == << >>

MapHas(m, k) == \E i \in DOMAIN m : m[i].k = k

MapIdx(m, k) == CHOOSE i \in DOMAIN m : m[i].k = k

MapGetOr(m, k, d) == IF MapHas(m, k) THEN m[MapIdx(m, k)].v ELSE d

MapSet(m, k, v) ==
    IF MapHas(m, k) THEN [m EXCEPT ![MapIdx(m, k)].v = v]
    ELSE Append(m, [k |-> k, v |-> v])

MapKeys(m) == [i \in DOMAIN m |-> m[i].k]

\* unordered maps whose iteration order never reaches a result
EmptyFn == [x \in {} |-> 0]

FnSet(f, k, v) == [x \in DOMAIN f \cup {k} |-> IF x = k THEN v ELSE f[x]]

FnGetOr(f, k, d) == IF k \in DOMAIN f THEN f[k] ELSE d

RECURSIVE SumSeq(_)
SumSeq(s) == IF s = << >> THEN 0 ELSE Head(s) + SumSeq(Tail(s))

RECURSIVE RSumSeq(_)
RSumSeq(s) == IF s = << >> THEN Zero ELSE RAdd(Head(s), RSumSeq(Tail(s)))

MapValues(m) == [i \in DOMAIN m |-> m[i].v]

Min(a, b) == IF a < b THEN a ELSE b

\* Array.prototype.slice(-n)
SliceLast(s, n) ==
    IF n = 0 \/ n >= Len(s) THEN s
    ELSE SubSeq(s, Len(s) - n + 1, Len(s))

\* Array.prototype.join(',') over the action names, each a sequence of characters
RECURSIVE Join(_)
Join(names) ==
    IF names = << >> THEN << >>
    ELSE IF Len(names) = 1 THEN names[1]
    ELSE names[1] \o <<",">> \o Join(Tail(names))

ActionTypes(history) == [i \in DOMAIN history |-> history[i].actionType]

\* new Date(timestamp).getHours()
getHours(timestamp) == (timestamp \div TicksPerHour) % HoursPerDay

\* ------------------------------------------------------ component registry
\* ComponentTracker.getComponentByAction: `actionComponentMap.get(a) || null`
getComponentByAction(acm, actionType) ==
    IF actionType \in DOMAIN acm THEN acm[actionType] ELSE None

\* ------------------------------------------------- prediction engine: update
\* A model value m is the record of the four learned structures:
\*   userHistory          sequence of [componentId, actionType, timestamp]
\*   transitionMatrix     length -> (pattern -> ordered map action -> count)
\*   globalActionCounter  ordered map action -> count
\*   timePatterns         ordered map action -> (hour -> count)

\* timeData.set(hour, (timeData.get(hour) || 0) + 1)
UpdTimePatterns(tp, action, hour) ==
    LET timeData == MapGetOr(tp, action, EmptyFn)
    IN MapSet(tp, action, FnSet(timeData, hour, FnGetOr(timeData, hour, 0) + 1))

\* variant: the update leaves the counter as it is
UpdGlobalActionCounterSkipped(gc, action) == gc

\* variant: the count is set to 1 instead of incremented
UpdGlobalActionCounterOverwrite(gc, action) ==
    MapSet(gc, action, 1)

\* globalActionCounter.set(action, (globalActionCounter.get(action) || 0) + 1)
UpdGlobalActionCounter(gc, action) ==
    MapSet(gc, action, MapGetOr(gc, action, 0) + 1)

\* one iteration of the `for (let length = 1; length <= maxLen; length++)` body
UpdLevel(tm, history, action, length) ==
    LET pattern == Join(ActionTypes(SliceLast(history, length)))
        level == FnGetOr(tm, length, EmptyFn)
        transitions == FnGetOr(level, pattern, EmptyMap)
    IN FnSet(tm, length,
             FnSet(level, pattern, MapSet(transitions, action, MapGetOr(transitions, action, 0) + 1)))

RECURSIVE UpdLevels(_, _, _, _, _)
UpdLevels(tm, history, action, length, maxLen) ==
    IF length > maxLen THEN tm
    ELSE UpdLevels(UpdLevel(tm, history, action, length), history, action, length + 1, maxLen)

\* variant: the transitions are recorded after the new item was appended
UpdTransitionsAfterAppend(tm, history, action) ==
    UpdLevels(tm, Append(history, [actionType |-> action]), action, 1,
              Min(maxPatternLength, Len(history) + 1))

UpdTransitions(tm, history, action) ==
    UpdLevels(tm, history, action, 1, Min(maxPatternLength, Len(history)))

\* this.userHistory = [...history.slice(-this.historyLength), item]
UpdUserHistory(history, interaction, timestamp) ==
    Append(SliceLast(history, historyLength),
           [componentId |-> interaction.componentId,
            actionType |-> interaction.actionType,
            timestamp |-> timestamp])

updateTransitionMatrix(m, interaction, timestamp) ==
    LET action == interaction.actionType
    IN [userHistory |-> UpdUserHistory(m.userHistory, interaction, timestamp),
        transitionMatrix |-> UpdTransitions(m.transitionMatrix, m.userHistory, action),
        globalActionCounter |-> UpdGlobalActionCounter(m.globalActionCounter, action),
        timePatterns |-> UpdTimePatterns(m.timePatterns, action, getHours(timestamp))]

RECURSIVE processHistoricalData(_, _)
processHistoricalData(m, interactions) ==
    IF interactions = << >> THEN m
    ELSE processHistoricalData(
             updateTransitionMatrix(m, Head(interactions), Head(interactions).timestamp),
             Tail(interactions))

\* -------------------------------------------------- prediction engine: query
RECURSIVE Pow2(_)
Pow2(n) == IF n = 0 THEN 1 ELSE 2 * Pow2(n - 1)

\* Math.exp(-decayLambda * deltaT) in doubles, deltaT in half-lives
applyAdaptiveDecay(deltaT) ==
    IF deltaT > DecayUnderflow THEN Zero ELSE <<1, Pow2(deltaT)>>

\* (count + smoothingFactor) / (total + smoothingFactor * possibleActions.size)
smoothedProb(count, total, size) ==
    RDiv(RAdd(Int2R(count), smoothingFactor),
         RAdd(Int2R(total), RMul(smoothingFactor, Int2R(size))))

\* the weighted entries one pattern length contributes, in row order
LevelWeights(m, clock, length) ==
    LET history == m.userHistory
        pattern == Join(ActionTypes(SliceLast(history, length)))
        possibleActions == FnGetOr(FnGetOr(m.transitionMatrix, length, EmptyFn), pattern, EmptyMap)
        total == SumSeq(MapValues(possibleActions))
        timeDelta == clock - history[Len(history) - length + 1].timestamp
        decay == applyAdaptiveDecay(timeDelta)
    IN [i \in DOMAIN possibleActions |->
           [k |-> possibleActions[i].k,
            v |-> RMul(smoothedProb(possibleActions[i].v, total, Len(possibleActions)), decay)]]

RECURSIVE AllWeights(_, _, _)
AllWeights(m, clock, length) ==
    IF length > Min(maxPatternLength, Len(m.userHistory)) THEN << >>
    ELSE LevelWeights(m, clock, length) \o AllWeights(m, clock, length + 1)

\* seqProbs.set(action, (seqProbs.get(action) || 0) + weighted), entry by entry
RECURSIVE Accumulate(_, _)
Accumulate(seqProbs, entries) ==
    IF entries = << >> THEN seqProbs
    ELSE Accumulate(MapSet(seqProbs, Head(entries).k,
                           RAdd(MapGetOr(seqProbs, Head(entries).k, Zero), Head(entries).v)),
                    Tail(entries))

\* `clock` is the value Date.now() returns while the query runs
getSequenceProbabilities(m, clock) ==
    LET seqProbs == Accumulate(EmptyMap, AllWeights(m, clock, 1))
        totalWeight == RSumSeq(MapValues(seqProbs))
    IN IF RLess(Zero, totalWeight)
       THEN [i \in DOMAIN seqProbs |-> [k |-> seqProbs[i].k, v |-> RDiv(seqProbs[i].v, totalWeight)]]
       ELSE seqProbs

getTimeProbabilities(m, timestamp) ==
    LET hour == getHours(timestamp)
        tp == m.timePatterns
        total == SumSeq([i \in DOMAIN tp |-> FnGetOr(tp[i].v, hour, 0)])
    IN IF total > 0
       THEN [i \in DOMAIN tp |-> [k |-> tp[i].k, v |-> Norm(FnGetOr(tp[i].v, hour, 0), total)]]
       ELSE EmptyMap

\* variant: the comparison of the reduce is reversed
RECURSIVE ReduceMaxReversed(_, _)
ReduceMaxReversed(acc, rest) ==
    IF rest = << >> THEN acc
    ELSE ReduceMaxReversed(IF acc.v < Head(rest).v THEN acc ELSE Head(rest), Tail(rest))

\* reduce((a, b) => a[1] > b[1] ? a : b) over the counter's entries
RECURSIVE ReduceMax(_, _)
ReduceMax(acc, rest) ==
    IF rest = << >> THEN acc
    ELSE ReduceMax(IF acc.v > Head(rest).v THEN acc ELSE Head(rest), Tail(rest))

getMostFrequentAction(gc) ==
    IF Len(gc) = 0 THEN None ELSE ReduceMax(Head(gc), Tail(gc)).k

\* new Set([...seqProbs.keys(), ...timeProbs.keys()])
AllActions(seqProbs, timeProbs) ==
    MapKeys(seqProbs) \o SelectSeq(MapKeys(timeProbs), LAMBDA a : ~MapHas(seqProbs, a))

Combined(seqProbs, timeProbs) ==
    LET allActions == AllActions(seqProbs, timeProbs)
    IN [i \in DOMAIN allActions |->
           [k |-> allActions[i],
            v |-> RAdd(RMul(weightSequence, MapGetOr(seqProbs, allActions[i], Zero)),
                       RMul(weightTime, MapGetOr(timeProbs, allActions[i], Zero)))]]

\* variant: a descending sort that puts an entry before its equals
InsertDescBeforeEquals(sorted, e) ==
    LET later == {j \in DOMAIN sorted : ~RLess(e.v, sorted[j].v)}
        pos == IF later = {} THEN Len(sorted) + 1 ELSE CHOOSE j \in later : \A i \in later : j <= i
    IN SubSeq(sorted, 1, pos - 1) \o <<e>> \o SubSeq(sorted, pos, Len(sorted))

\* Array.prototype.sort((a, b) => b[1] - a[1]): stable, descending by score
InsertDesc(sorted, e) ==
    LET later == {j \in DOMAIN sorted : RLess(sorted[j].v, e.v)}
        pos == IF later = {} THEN Len(sorted) + 1 ELSE CHOOSE j \in later : \A i \in later : j <= i
    IN SubSeq(sorted, 1, pos - 1) \o <<e>> \o SubSeq(sorted, pos, Len(sorted))

RECURSIVE SortDesc(_, _)
SortDesc(sorted, rest) ==
    IF rest = << >> THEN sorted ELSE SortDesc(InsertDesc(sorted, Head(rest)), Tail(rest))

\* Math.abs(v - maxValue) < 1e-6
NearMax(v, maxValue) ==
    LET d == RAbs(RSub(v, maxValue)) IN RLess(d, <<1, TieEpsilonInverse>>)

\* topCandidates.sort((a, b) => computeEntropy(seqProbs) - computeEntropy(seqProbs)):
\* the comparator is 0 for every pair, so the stable sort returns its input
EntropySort(topCandidates) == topCandidates

BestAction(combined) ==
    LET sorted == SortDesc(<< >>, combined)
        maxValue == sorted[1].v
        topCandidates == SelectSeq(sorted, LAMBDA e : NearMax(e.v, maxValue))
    IN IF Len(topCandidates) = 1 THEN topCandidates[1].k ELSE EntropySort(topCandidates)[1].k

\* the map `combined` of predictNextAction
CombinedScores(m, timestamp, clock) ==
    Combined(getSequenceProbabilities(m, clock), getTimeProbabilities(m, timestamp))

\* predictNextAction past its first return
PredictFromScores(m, acm, timestamp, clock) ==
    LET combined == CombinedScores(m, timestamp, clock)
        fallbackAction == getMostFrequentAction(m.globalActionCounter)
    IN IF Len(combined) > 0
       THEN [action |-> BestAction(combined),
             componentId |-> getComponentByAction(acm, BestAction(combined))]
       ELSE [action |-> fallbackAction,
             componentId |-> IF fallbackAction # None
                             THEN getComponentByAction(acm, fallbackAction) ELSE None]

\* variant: the first return of predictNextAction is left out
predictNextActionNoEarlyReturn(m, acm, timestamp, clock) ==
    PredictFromScores(m, acm, timestamp, clock)

predictNextAction(m, acm, timestamp, clock) ==
    IF Len(m.userHistory) = 0 /\ Len(m.globalActionCounter) = 0
    THEN [action |-> None, componentId |-> None]
    ELSE PredictFromScores(m, acm, timestamp, clock)

\* ------------------------------------------------------------ crypto service
\* AES-GCM under the one build-time key: the ciphertext is a function of the
\* plaintext and the IV, kept symbolic: the tagged triple <<"ct", plaintext, iv>>.
\* crypto.getRandomValues(new Uint8Array(12)): 96 random bits, taken as fresh at
\* every draw and named by the call and field they are drawn for
RandomIV(call, field) == <<call, field>>

encrypt(data, iv) == [ciphertext |-> <<"ct", data, iv>>, iv |-> iv]

DecryptionFailure == <<"DecryptionFailure">>

decrypt(ciphertext, iv) ==
    IF ciphertext[3] = iv THEN ciphertext[2] ELSE DecryptionFailure

\* ------------------------------------------------------------ preload cache
\* new ComponentPreloader(): an empty componentCache
NewComponentCache == {}

\* ComponentPreloader.preloadComponent reaches componentCache.set(...)
CacheStep(componentCache, tracked, componentId) ==
    componentId \notin componentCache /\ MapHas(tracked, componentId)

\* new PredictionModel(): nothing learned yet
NewModel ==
    [userHistory |-> << >>, transitionMatrix |-> EmptyFn,
     globalActionCounter |-> EmptyMap, timePatterns |-> EmptyMap]

\* `${componentId}` in a template literal: a string is inserted as it is, an
\* object is rendered by Object.prototype.toString
TemplateText(value, isObject) == IF isObject THEN <<"[object Object]">> ELSE value

\* `/assets/${componentId}.jpg`
AssetUrl(text) == <<"/assets/">> \o text \o <<".jpg">>

\* ComponentPreload.getInstance() at module load: init() calls
\* preloadPredictedComponent, which takes the whole result of predictNextAction
\* (an object, which `if (predictedComponent)` never rejects) as the component
\* id and passes it to fetchAndCacheComponent; with the Cache API present the
\* call is left awaiting caches.open. The model and the registry are still as
\* constructed.
preloadPredictedComponent(clock) ==
    LET predictedComponent == predictNextAction(NewModel, EmptyFn, clock, clock)
    IN [pc |-> "cacheOpen",
        predicted |-> predictedComponent,
        url |-> AssetUrl(TemplateText(predictedComponent, TRUE))]

\* ------------------------------------------------------- build-time key
KeyLength == 64

HexDigits == {"0", "1", "2", "3", "4", "5", "6", "7", "8", "9",
              "a", "b", "c", "d", "e", "f", "A", "B", "C", "D", "E", "F"}

\* /^[0-9a-fA-F]{64}$/.test(text)
MatchesHex64(text) == Len(text) = KeyLength /\ \A i \in DOMAIN text : text[i] \in HexDigits

\* the two tests at the top of databaseManager and of predictionModel: the
\* module throws unless process.env.ENCRYPTION_KEY is defined, non-empty, of
\* length 64 and matched by the pattern
validateKey(key) ==
    /\ key.defined /\ key.text # << >>
    /\ ~(Len(key.text) # KeyLength \/ ~MatchesHex64(key.text))

Repeat(ch, n) == [i \in 1..n |-> ch]

\* values process.env.ENCRYPTION_KEY may have in a build
Keys ==
    { [defined |-> FALSE, text |-> << >>],
      [defined |-> TRUE, text |-> << >>],
      [defined |-> TRUE, text |-> Repeat("a", KeyLength - 1)],
      [defined |-> TRUE, text |-> Repeat("a", KeyLength + 1)],
      [defined |-> TRUE, text |-> Repeat("a", KeyLength - 1) \o <<"g">>],
      [defined |-> TRUE, text |-> <<" ">> \o Repeat("0", KeyLength - 1)],
      [defined |-> TRUE, text |-> Repeat("0", KeyLength - 2) \o <<"a", "F">>],
      [defined |-> TRUE, text |-> Repeat("F", KeyLength)] }

\* the library as bundled and loaded with a well-formed key: the store was
\* opened by initializeDatabase and the model subscribed to saved interactions
Loaded ==
    [key |-> [defined |-> TRUE, text |-> Repeat("F", KeyLength)],
     pc |-> "loaded", opens |-> 1, subscribers |-> 1]

\* ------------------------------------------------- remote aggregator replies
ComponentTypes == {"page"}

\* trackComponent called without metadata
NoMetadata == << >>

\* bodies GET /global-model/{appId} may answer with; keys are ciphertexts
GmEntry(action, iv, value) == [ct |-> encrypt(action, iv).ciphertext, iv |-> iv, value |-> value]

ServerModels ==
    { [globalActionCounter |-> <<GmEntry(A, <<"s1">>, 2)>>,
       timePatterns |-> <<GmEntry(A, <<"s1">>, (0 :> 2))>>],
      [globalActionCounter |-> << >>,
       timePatterns |-> <<GmEntry(C, <<"s2">>, (0 :> 1))>>] }

ServerAppId == <<"app1">>

\* ---------------------------------------------------------------- the state
VARIABLES
    now,                  \* Date.now(), in ticks
    session,              \* number of the current page load
    trackedComponents,    \* ComponentTracker.trackedComponents: id -> descriptor
    actionComponentMap,   \* ComponentTracker.actionComponentMap
    dbRows,               \* object store Interactions, in key order (durable)
    storedAppId,          \* localStorage prediction_model_app_id (durable)
    saves,                \* saveInteraction calls, in call order
    openQueue,            \* pending indexedDB.open requests, oldest first
    txQueue,              \* created transactions awaiting completion, oldest first
    userHistory, transitionMatrix, globalActionCounter, timePatterns,
    appId,
    initPc,               \* where initialize() is suspended
    initData,             \* what initialize() holds across its awaits
    cacheSteps,           \* component id -> fetch/cache steps performed this session
    notified,             \* calls whose record was published to the subscribers
    committed,            \* calls whose row committed, in commit order
    applied,              \* updateTransitionMatrix applications this session
    gmInstalled,          \* a global-model answer began to be installed this session
    installation,         \* which browser profile (own storage) is running
    ivMap,                \* PredictionModel.ivMap: action -> IV, in memory
    storedIvMap,          \* localStorage item 'ivMap'
    upload,               \* the uploadAnonymizedData call in flight, if any
    uploads,              \* bodies POSTed to /upload-anonymous-data, as the server gets them
    autoPreload,          \* the module-load preload of ComponentPreload: where it is, its URL
    assetCache,           \* URLs put into the Cache API cache predicted-components-cache (durable)
    componentCache,       \* componentCache of the application's ComponentPreloader
    startup,              \* module evaluation: the build's key, how far it got, what it did
    updateLog             \* the actions ApplyUpdate passed to updateTransitionMatrix, in order

registryVars == <<trackedComponents, actionComponentMap>>
modelVars == <<userHistory, transitionMatrix, globalActionCounter, timePatterns>>
uploadVars == <<installation, ivMap, storedIvMap, upload, uploads>>
preloadVars == <<autoPreload, assetCache, componentCache>>
saveVars == <<saves, openQueue, txQueue>>
vars == <<now, session, trackedComponents, actionComponentMap, dbRows, storedAppId,
          saves, openQueue, txQueue, userHistory, transitionMatrix,
          globalActionCounter, timePatterns, appId, initPc, initData, cacheSteps,
          notified, committed, applied, gmInstalled,
          installation, ivMap, storedIvMap, upload, uploads,
          autoPreload, assetCache, componentCache, startup, updateLog>>

Model ==
    [userHistory |-> userHistory, transitionMatrix |-> transitionMatrix,
     globalActionCounter |-> globalActionCounter, timePatterns |-> timePatterns]

SetModel(m) ==
    /\ userHistory' = m.userHistory
    /\ transitionMatrix' = m.transitionMatrix
    /\ globalActionCounter' = m.globalActionCounter
    /\ timePatterns' = m.timePatterns

GetAll == 0     \* the queue token of getAllInteractions; saves use their call number
NoData == [rows |-> << >>, counter |-> << >>, time |-> << >>]

\* module load: singletons constructed, the model subscribed, initialize()
\* running up to its first await
\* no uploadAnonymizedData call is running
NoUpload == [pc |-> "idle", counts |-> << >>, anonymizedData |-> << >>, history |-> << >>]

StartSession ==
    /\ userHistory = << >>
    /\ transitionMatrix = EmptyFn
    /\ globalActionCounter = EmptyMap
    /\ timePatterns = EmptyMap
    /\ trackedComponents = EmptyMap
    /\ actionComponentMap = EmptyFn
    /\ cacheSteps = [c \in Components |-> 0]
    /\ initData = NoData
    /\ applied = 0
    /\ gmInstalled = FALSE
    /\ ivMap = EmptyFn
    /\ upload = NoUpload
    /\ autoPreload = preloadPredictedComponent(now)
    /\ componentCache = NewComponentCache

Init ==
    /\ now = 0
    /\ session = 1
    /\ dbRows = << >>
    /\ storedAppId = None
    /\ saves = << >>
    /\ openQueue = << >>
    /\ txQueue = << >>
    /\ appId = None
    /\ initPc = "register"
    /\ notified = << >>
    /\ committed = << >>
    /\ installation = 1
    /\ storedIvMap = EmptyFn
    /\ uploads = << >>
    /\ assetCache = {}
    /\ startup = Loaded
    /\ updateLog = << >>
    /\ StartSession

\* ------------------------------------------------------------------ actions
Tick ==
    /\ now < MaxClock
    /\ now' = now + 1
    /\ UNCHANGED <<session, registryVars, dbRows, storedAppId, saveVars, modelVars, appId,
                   initPc, initData, cacheSteps, notified, committed, applied, gmInstalled, uploadVars,
                   preloadVars, startup, updateLog>>

\* variant: a second trackComponent of an id replaces its descriptor
TrackComponentOverwriting(id, type, metadata) ==
    /\ trackedComponents' =
           MapSet(trackedComponents, id, [id |-> id, type |-> type, metadata |-> metadata])
    /\ UNCHANGED <<now, session, actionComponentMap, dbRows, storedAppId, saveVars, modelVars,
                   appId, initPc, initData, cacheSteps, notified, committed,
                   applied, gmInstalled, uploadVars,
                   preloadVars, startup, updateLog>>

\* ComponentTracker.trackComponent
TrackComponent(id, type, metadata) ==
    /\ trackedComponents' =
           IF MapHas(trackedComponents, id) THEN trackedComponents
           ELSE MapSet(trackedComponents, id, [id |-> id, type |-> type, metadata |-> metadata])
    /\ UNCHANGED <<now, session, actionComponentMap, dbRows, storedAppId, saveVars, modelVars,
                   appId, initPc, initData, cacheSteps, notified, committed,
                   applied, gmInstalled, uploadVars,
                   preloadVars, startup, updateLog>>

\* variant: the action is bound whether or not the component is tracked
AssociateActionWithComponentUnchecked(actionType, componentId) ==
    /\ actionComponentMap' = FnSet(actionComponentMap, actionType, componentId)
    /\ UNCHANGED <<now, session, trackedComponents, dbRows, storedAppId, saveVars, modelVars,
                   appId, initPc, initData, cacheSteps, notified, committed,
                   applied, gmInstalled, uploadVars,
                   preloadVars, startup, updateLog>>

\* ComponentTracker.associateActionWithComponent
AssociateActionWithComponent(actionType, componentId) ==
    /\ actionComponentMap' =
           IF ~MapHas(trackedComponents, componentId) THEN actionComponentMap
           ELSE FnSet(actionComponentMap, actionType, componentId)
    /\ UNCHANGED <<now, session, trackedComponents, dbRows, storedAppId, saveVars, modelVars,
                   appId, initPc, initData, cacheSteps, notified, committed,
                   applied, gmInstalled, uploadVars,
                   preloadVars, startup, updateLog>>

\* predictionModel.predict(timestamp), called by the application: a query, the
\* value it returns is predictNextAction(Model, actionComponentMap, timestamp, now)
Predict(timestamp) ==
    /\ UNCHANGED <<now, session, registryVars, dbRows, storedAppId, saveVars, modelVars, appId,
                   initPc, initData, cacheSteps, notified, committed, applied, gmInstalled, uploadVars,
                   preloadVars, startup, updateLog>>

Pending ==
    {i \in DOMAIN saves : saves[i].session = session /\ saves[i].pc \notin {"resolved", "rejected"}}

\* variant: the record is built and saved whether or not a component is bound
TrackInteractionUnchecked(actionType) ==
    /\ Len(saves) < MaxSaves
    /\ Cardinality(Pending) < MaxInFlight
    /\ saves' = Append(saves,
                       [session |-> session,
                        interaction |-> [componentId |-> getComponentByAction(actionComponentMap,
                                                                              actionType),
                                         actionType |-> actionType,
                                         timestamp |-> now],
                        pc |-> "encryptAction",
                        encryptedActionType |-> None,
                        encryptedComponentId |-> None,
                        error |-> None])
    /\ UNCHANGED <<now, session, registryVars, dbRows, storedAppId, openQueue, txQueue,
                   modelVars, appId, initPc, initData, cacheSteps, notified,
                   committed, applied, gmInstalled, uploadVars,
                   preloadVars, startup, updateLog>>

\* InteractionTracker.trackInteraction up to the first await of saveInteraction
TrackInteraction(actionType) ==
    /\ Len(saves) < MaxSaves
    /\ Cardinality(Pending) < MaxInFlight
    /\ LET componentId == getComponentByAction(actionComponentMap, actionType)
       IN saves' =
              IF componentId = None THEN saves
              ELSE Append(saves,
                          [session |-> session,
                           interaction |-> [componentId |-> componentId,
                                            actionType |-> actionType,
                                            timestamp |-> now],
                           pc |-> "encryptAction",
                           encryptedActionType |-> None,
                           encryptedComponentId |-> None,
                           error |-> None])
    /\ UNCHANGED <<now, session, registryVars, dbRows, storedAppId, openQueue, txQueue,
                   modelVars, appId, initPc, initData, cacheSteps, notified,
                   committed, applied, gmInstalled, uploadVars,
                   preloadVars, startup, updateLog>>

\* a settled promise: only its outcome and rejection value remain
Settled(save, outcome, error) ==
    [session |-> save.session, interaction |-> None, pc |-> outcome,
     encryptedActionType |-> None, encryptedComponentId |-> None, error |-> error]

EncryptFailure == <<"encrypt failed">>
OpenFailure == <<"Error opening IndexedDB">>
SaveFailure == <<"Error saving interaction">>

InFlight(i) == i \in DOMAIN saves /\ saves[i].session = session

\* variant: indexedDB.open is requested as soon as the action type is encrypted
EncryptActionTypeDoneOpening(i) ==
    /\ InFlight(i) /\ saves[i].pc = "encryptAction"
    /\ saves' = [saves EXCEPT ![i].pc = "opening",
                              ![i].encryptedActionType =
                                  encrypt(saves[i].interaction.actionType, RandomIV(i, "actionType"))]
    /\ openQueue' = Append(openQueue, i)
    /\ UNCHANGED <<now, session, registryVars, dbRows, storedAppId, txQueue,
                   modelVars, appId, initPc, initData, cacheSteps, notified,
                   committed, applied, gmInstalled, uploadVars,
                   preloadVars, startup, updateLog>>

\* saveInteraction: `await this.encrypt(interaction.actionType)` settles
EncryptActionTypeDone(i) ==
    /\ InFlight(i) /\ saves[i].pc = "encryptAction"
    /\ saves' = [saves EXCEPT ![i].pc = "encryptComponent",
                              ![i].encryptedActionType =
                                  encrypt(saves[i].interaction.actionType, RandomIV(i, "actionType"))]
    /\ UNCHANGED <<now, session, registryVars, dbRows, storedAppId, openQueue, txQueue,
                   modelVars, appId, initPc, initData, cacheSteps, notified,
                   committed, applied, gmInstalled, uploadVars,
                   preloadVars, startup, updateLog>>

\* saveInteraction: `await this.encrypt(interaction.componentId)` settles, then
\* indexedDB.open is requested
EncryptComponentIdDone(i) ==
    /\ InFlight(i) /\ saves[i].pc = "encryptComponent"
    /\ saves' = [saves EXCEPT ![i].pc = "opening",
                              ![i].encryptedComponentId =
                                  encrypt(saves[i].interaction.componentId, RandomIV(i, "componentId"))]
    /\ openQueue' = Append(openQueue, i)
    /\ UNCHANGED <<now, session, registryVars, dbRows, storedAppId, txQueue, modelVars, appId,
                   initPc, initData, cacheSteps, notified, committed, applied, gmInstalled, uploadVars,
                   preloadVars, startup, updateLog>>

\* either encryption throws: the async function's promise rejects
EncryptError(i) ==
    /\ InFlight(i) /\ saves[i].pc \in {"encryptAction", "encryptComponent"}
    /\ saves' = [saves EXCEPT ![i] = Settled(@, "rejected", EncryptFailure)]
    /\ UNCHANGED <<now, session, registryVars, dbRows, storedAppId, openQueue, txQueue,
                   modelVars, appId, initPc, initData, cacheSteps, notified,
                   committed, applied, gmInstalled, uploadVars,
                   preloadVars, startup, updateLog>>

\* request.onsuccess of saveInteraction: transaction created, store.add queued
OpenSuccess(i) ==
    /\ openQueue # << >> /\ Head(openQueue) = i /\ i # GetAll
    /\ saves' = [saves EXCEPT ![i].pc = "transaction"]
    /\ openQueue' = Tail(openQueue)
    /\ txQueue' = Append(txQueue, i)
    /\ UNCHANGED <<now, session, registryVars, dbRows, storedAppId, modelVars, appId, initPc,
                   initData, cacheSteps, notified, committed, applied, gmInstalled, uploadVars,
                   preloadVars, startup, updateLog>>

\* request.onerror of saveInteraction
OpenError(i) ==
    /\ openQueue # << >> /\ Head(openQueue) = i /\ i # GetAll
    /\ saves' = [saves EXCEPT ![i] = Settled(@, "rejected", OpenFailure)]
    /\ openQueue' = Tail(openQueue)
    /\ UNCHANGED <<now, session, registryVars, dbRows, storedAppId, txQueue, modelVars, appId,
                   initPc, initData, cacheSteps, notified, committed, applied, gmInstalled, uploadVars,
                   preloadVars, startup, updateLog>>

\* variant: each field is stored beside the IV of the other field
EncryptedInteractionSwappedIVs(save) ==
    [actionType |-> save.encryptedActionType.ciphertext,
     actionTypeIV |-> save.encryptedComponentId.iv,
     componentId |-> save.encryptedComponentId.ciphertext,
     componentIdIV |-> save.encryptedActionType.iv,
     timestamp |-> save.interaction.timestamp]

EncryptedInteraction(save) ==
    [actionType |-> save.encryptedActionType.ciphertext,
     actionTypeIV |-> save.encryptedActionType.iv,
     componentId |-> save.encryptedComponentId.ciphertext,
     componentIdIV |-> save.encryptedComponentId.iv,
     timestamp |-> save.interaction.timestamp]

\* PredictionModel.updateModel, the one onInteractionSaved subscriber
updateModel(interaction) ==
    LET m == updateTransitionMatrix(Model, interaction, interaction.timestamp)
        nextAction == predictNextAction(m, actionComponentMap, now, now)
    IN /\ SetModel(m)
       /\ applied' = applied + 1
       /\ cacheSteps' =
              IF /\ nextAction.componentId # None
                 /\ CacheStep(NewComponentCache, trackedComponents, nextAction.componentId)
              THEN [cacheSteps EXCEPT ![nextAction.componentId] = @ + 1]
              ELSE cacheSteps

\* transaction.oncomplete of saveInteraction: the row is committed, the record
\* is published, the promise resolves
TransactionComplete(i) ==
    /\ txQueue # << >> /\ Head(txQueue) = i /\ i # GetAll
    /\ dbRows' = Append(dbRows, EncryptedInteraction(saves[i]))
    /\ committed' = Append(committed, i)
    /\ notified' = Append(notified, i)
    /\ updateModel(saves[i].interaction)
    /\ saves' = [saves EXCEPT ![i] = Settled(@, "resolved", None)]
    /\ txQueue' = Tail(txQueue)
    /\ UNCHANGED <<now, session, registryVars, storedAppId, openQueue, appId, initPc,
                   initData, gmInstalled, uploadVars,
                   preloadVars, startup, updateLog>>

\* variant: transaction.onerror publishes the record before it rejects
TransactionErrorPublishing(i) ==
    /\ txQueue # << >> /\ Head(txQueue) = i /\ i # GetAll
    /\ notified' = Append(notified, i)
    /\ updateModel(saves[i].interaction)
    /\ saves' = [saves EXCEPT ![i] = Settled(@, "rejected", SaveFailure)]
    /\ txQueue' = Tail(txQueue)
    /\ UNCHANGED <<now, session, registryVars, dbRows, storedAppId, openQueue,
                   appId, initPc, initData, committed, gmInstalled, uploadVars,
                   preloadVars, startup, updateLog>>

\* transaction.onerror of saveInteraction
TransactionError(i) ==
    /\ txQueue # << >> /\ Head(txQueue) = i /\ i # GetAll
    /\ saves' = [saves EXCEPT ![i] = Settled(@, "rejected", SaveFailure)]
    /\ txQueue' = Tail(txQueue)
    /\ UNCHANGED <<now, session, registryVars, dbRows, storedAppId, openQueue, modelVars,
                   appId, initPc, initData, cacheSteps, notified, committed,
                   applied, gmInstalled, uploadVars,
                   preloadVars, startup, updateLog>>

\* ----------------------------------------------- PredictionModel.initialize
\* the closing `this.predictNextAction(Date.now())` returns a value nothing
\* reads; initialize() is done
FinishInitialize(m) ==
    /\ initPc' = "ready"
    /\ initData' = NoData

\* the early return of checkAndFetchGlobalModel
SkipGlobalModel(m, app) ==
    (Len(m.userHistory) >= minActionsThreshold /\ DOMAIN m.transitionMatrix # {}) \/ app = None

\* checkAndFetchGlobalModel up to its fetch
checkAndFetchGlobalModel(m, app) ==
    IF SkipGlobalModel(m, app) THEN FinishInitialize(m)
    ELSE /\ initPc' = "gmFetch"
         /\ initData' = NoData

\* registerApp: the POST /register-app settles; then scheduleDailyUpload and the
\* indexedDB.open of getAllInteractions
RegisterAppResponse(outcome) ==
    /\ initPc = "register"
    /\ \/ /\ outcome = "ok"
          /\ appId' = ServerAppId
          /\ storedAppId' = ServerAppId
       \/ /\ outcome = "noAppId"
          /\ appId' = None
          /\ UNCHANGED storedAppId
       \/ /\ outcome = "error"
          /\ appId' = <<"fallback", now>>
          /\ UNCHANGED storedAppId
    /\ openQueue' = Append(openQueue, GetAll)
    /\ initPc' = "open"
    /\ UNCHANGED <<now, session, registryVars, dbRows, saves, txQueue, modelVars, initData,
                   cacheSteps, notified, committed, applied, gmInstalled, uploadVars,
                   preloadVars, startup, updateLog>>

\* getAllInteractions: request.onsuccess, the read-only transaction and getAll()
GetAllOpenSuccess ==
    /\ openQueue # << >> /\ Head(openQueue) = GetAll
    /\ openQueue' = Tail(openQueue)
    /\ txQueue' = Append(txQueue, GetAll)
    /\ initPc' = "getAll"
    /\ UNCHANGED <<now, session, registryVars, dbRows, storedAppId, saves, modelVars, appId,
                   initData, cacheSteps, notified, committed, applied, gmInstalled, uploadVars,
                   preloadVars, startup, updateLog>>

\* getAllInteractions: request.onerror rejects, initialize() logs and ends
GetAllOpenError ==
    /\ openQueue # << >> /\ Head(openQueue) = GetAll
    /\ openQueue' = Tail(openQueue)
    /\ initPc' = "failed"
    /\ UNCHANGED <<now, session, registryVars, dbRows, storedAppId, saves, txQueue, modelVars,
                   appId, initData, cacheSteps, notified, committed, applied, gmInstalled, uploadVars,
                   preloadVars, startup, updateLog>>

\* getAllInteractions: getRequest.onerror rejects, initialize() logs and ends
GetAllError ==
    /\ txQueue # << >> /\ Head(txQueue) = GetAll
    /\ txQueue' = Tail(txQueue)
    /\ initPc' = "failed"
    /\ UNCHANGED <<now, session, registryVars, dbRows, storedAppId, saves, openQueue, modelVars,
                   appId, initData, cacheSteps, notified, committed, applied, gmInstalled, uploadVars,
                   preloadVars, startup, updateLog>>

DecryptedRecords(rows) ==
    [i \in DOMAIN rows |->
        [actionType |-> decrypt(rows[i].actionType, rows[i].actionTypeIV),
         componentId |-> decrypt(rows[i].componentId, rows[i].componentIdIV),
         timestamp |-> rows[i].timestamp]]

\* getAllInteractions: getRequest.onsuccess reads the rows; with no row to
\* decrypt the promise resolves at once and initialize() runs on
GetAllSuccess ==
    /\ txQueue # << >> /\ Head(txQueue) = GetAll
    /\ txQueue' = Tail(txQueue)
    /\ IF dbRows = << >>
       THEN /\ checkAndFetchGlobalModel(Model, appId)
            /\ UNCHANGED <<modelVars, applied>>
       ELSE /\ initPc' = "decrypt"
            /\ initData' = [NoData EXCEPT !.rows = dbRows]
            /\ UNCHANGED <<modelVars, applied>>
    /\ UNCHANGED <<now, session, registryVars, dbRows, storedAppId, saves, openQueue, appId,
                   cacheSteps, notified, committed, gmInstalled, uploadVars,
                   preloadVars, startup, updateLog>>

\* both fields of a stored row decrypt under the build's key
RowDecrypts(row) ==
    /\ decrypt(row.actionType, row.actionTypeIV) # DecryptionFailure
    /\ decrypt(row.componentId, row.componentIdIV) # DecryptionFailure

\* an `await this.decrypt(...)` of the loop in getRequest.onsuccess throws: the
\* promise of the async handler rejects with nothing to catch it, and neither
\* resolve nor reject of getAllInteractions is ever called: initialize() stays
\* suspended on its await
GetAllDecryptThrows ==
    /\ initPc = "decrypt"
    /\ \E k \in DOMAIN initData.rows : ~RowDecrypts(initData.rows[k])
    /\ initPc' = "stalled"
    /\ initData' = NoData
    /\ UNCHANGED <<now, session, registryVars, dbRows, storedAppId, saveVars, modelVars, appId,
                   cacheSteps, notified, committed, applied, gmInstalled, uploadVars,
                   preloadVars, startup, updateLog>>

\* the last row is decrypted: processHistoricalData, then checkAndFetchGlobalModel
GetAllDecrypted ==
    /\ initPc = "decrypt"
    /\ \A k \in DOMAIN initData.rows : RowDecrypts(initData.rows[k])
    /\ LET m == processHistoricalData(Model, DecryptedRecords(initData.rows))
       IN /\ SetModel(m)
          /\ applied' = applied + Len(initData.rows)
          /\ checkAndFetchGlobalModel(m, appId)
    /\ UNCHANGED <<now, session, registryVars, dbRows, storedAppId, saveVars, appId,
                   cacheSteps, notified, committed, gmInstalled, uploadVars,
                   preloadVars, startup, updateLog>>

\* `this.timePatterns = new Map()` and the loop over data.timePatterns up to
\* its first await
InstallTimePatterns(m, time) ==
    LET m2 == [m EXCEPT !.timePatterns = EmptyMap]
    IN /\ SetModel(m2)
       /\ IF time # << >>
          THEN /\ initPc' = "gmTime"
               /\ initData' = [NoData EXCEPT !.time = time]
          ELSE FinishInitialize(m2)

\* `this.globalActionCounter = new Map()` and the loop over
\* data.globalActionCounter up to its first await
InstallGlobalActionCounter(m, data) ==
    LET m1 == [m EXCEPT !.globalActionCounter = EmptyMap]
    IN IF data.globalActionCounter # << >>
       THEN /\ SetModel(m1)
            /\ initPc' = "gmCounter"
            /\ initData' = [NoData EXCEPT !.counter = data.globalActionCounter,
                                          !.time = data.timePatterns]
       ELSE InstallTimePatterns(m1, data.timePatterns)

\* GET /global-model/{appId} answers 200 with `data`
GlobalModelResponse(data) ==
    /\ initPc = "gmFetch"
    /\ InstallGlobalActionCounter(Model, data)
    /\ gmInstalled' = TRUE
    /\ UNCHANGED <<now, session, registryVars, dbRows, storedAppId, saveVars, appId,
                   cacheSteps, notified, committed, applied, uploadVars,
                   preloadVars, startup, updateLog>>

\* the fetch throws or answers with an error status: logged, nothing installed
GlobalModelError ==
    /\ initPc = "gmFetch"
    /\ FinishInitialize(Model)
    /\ UNCHANGED <<now, session, registryVars, dbRows, storedAppId, saveVars, modelVars, appId,
                   cacheSteps, notified, committed, applied, gmInstalled, uploadVars,
                   preloadVars, startup, updateLog>>

\* one `await this.decrypt(...)` of the globalActionCounter loop settles
GlobalCounterDecrypted ==
    /\ initPc = "gmCounter"
    /\ LET entry == Head(initData.counter)
           decryptedAction == decrypt(entry.ct, entry.iv)
           m == [Model EXCEPT !.globalActionCounter = MapSet(@, decryptedAction, entry.value)]
       IN IF decryptedAction = DecryptionFailure
          THEN FinishInitialize(Model) /\ UNCHANGED modelVars
          ELSE IF Tail(initData.counter) # << >>
          THEN /\ SetModel(m)
               /\ initData' = [initData EXCEPT !.counter = Tail(@)]
               /\ UNCHANGED initPc
          ELSE InstallTimePatterns(m, initData.time)
    /\ UNCHANGED <<now, session, registryVars, dbRows, storedAppId, saveVars, appId,
                   cacheSteps, notified, committed, applied, gmInstalled, uploadVars,
                   preloadVars, startup, updateLog>>

\* one `await this.decrypt(...)` of the timePatterns loop settles
GlobalTimeDecrypted ==
    /\ initPc = "gmTime"
    /\ LET entry == Head(initData.time)
           decryptedAction == decrypt(entry.ct, entry.iv)
           m == [Model EXCEPT !.timePatterns = MapSet(@, decryptedAction, entry.value)]
       IN IF decryptedAction = DecryptionFailure
          THEN FinishInitialize(Model) /\ UNCHANGED modelVars
          ELSE IF Tail(initData.time) # << >>
          THEN /\ SetModel(m)
               /\ initData' = [initData EXCEPT !.time = Tail(@)]
               /\ UNCHANGED initPc
          ELSE SetModel(m) /\ FinishInitialize(m)
    /\ UNCHANGED <<now, session, registryVars, dbRows, storedAppId, saveVars, appId,
                   cacheSteps, notified, committed, applied, gmInstalled, uploadVars,
                   preloadVars, startup, updateLog>>

\* variant: registerApp posts /register-app without looking at the stored appId
ReloadAlwaysRegistering ==
    /\ session < MaxSessions
    /\ initPc \in {"ready", "failed"}
    /\ \A i \in DOMAIN saves : saves[i].pc \in {"resolved", "rejected"}
    /\ session' = session + 1
    /\ userHistory' = << >>
    /\ transitionMatrix' = EmptyFn
    /\ globalActionCounter' = EmptyMap
    /\ timePatterns' = EmptyMap
    /\ trackedComponents' = EmptyMap
    /\ actionComponentMap' = EmptyFn
    /\ cacheSteps' = [c \in Components |-> 0]
    /\ initData' = NoData
    /\ applied' = 0
    /\ gmInstalled' = FALSE
    /\ appId' = storedAppId
    /\ initPc' = "register" /\ openQueue' = << >>
    /\ upload = NoUpload
    /\ ivMap' = EmptyFn
    /\ autoPreload' = preloadPredictedComponent(now)
    /\ componentCache' = NewComponentCache
    /\ UNCHANGED <<now, dbRows, storedAppId, saves, txQueue, notified, committed,
                   installation, storedIvMap, upload, uploads, assetCache, startup, updateLog>>

\* the page is loaded again once nothing is in flight: memory is rebuilt, the
\* object store and localStorage persist; registerApp finds the stored appId or
\* posts /register-app
Reload ==
    /\ session < MaxSessions
    /\ initPc \in {"ready", "failed"}
    /\ \A i \in DOMAIN saves : saves[i].pc \in {"resolved", "rejected"}
    /\ session' = session + 1
    /\ userHistory' = << >>
    /\ transitionMatrix' = EmptyFn
    /\ globalActionCounter' = EmptyMap
    /\ timePatterns' = EmptyMap
    /\ trackedComponents' = EmptyMap
    /\ actionComponentMap' = EmptyFn
    /\ cacheSteps' = [c \in Components |-> 0]
    /\ initData' = NoData
    /\ applied' = 0
    /\ gmInstalled' = FALSE
    /\ appId' = storedAppId
    /\ IF storedAppId # None
       THEN initPc' = "open" /\ openQueue' = <<GetAll>>
       ELSE initPc' = "register" /\ openQueue' = << >>
    /\ upload = NoUpload
    /\ ivMap' = EmptyFn
    /\ autoPreload' = preloadPredictedComponent(now)
    /\ componentCache' = NewComponentCache
    /\ UNCHANGED <<now, dbRows, storedAppId, saves, txQueue, notified, committed,
                   installation, storedIvMap, upload, uploads, assetCache, startup, updateLog>>

PredictArgs == {h * TicksPerHour : h \in 0..(MaxClock \div TicksPerHour)}

Next ==
    \/ Tick
    \/ \E id \in Components, type \in ComponentTypes : TrackComponent(id, type, NoMetadata)
    \/ \E b \in Bindings : AssociateActionWithComponent(b[1], b[2])
    \/ \E a \in Actions : TrackInteraction(a)
    \/ \E ts \in PredictArgs : Predict(ts)
    \/ \E i \in 1..MaxSaves : EncryptActionTypeDone(i)
    \/ \E i \in 1..MaxSaves : EncryptComponentIdDone(i)
    \/ \E i \in 1..MaxSaves : EncryptError(i)
    \/ \E i \in 1..MaxSaves : OpenSuccess(i)
    \/ \E i \in 1..MaxSaves : OpenError(i)
    \/ \E i \in 1..MaxSaves : TransactionComplete(i)
    \/ \E i \in 1..MaxSaves : TransactionError(i)
    \/ \E outcome \in {"ok", "noAppId", "error"} : RegisterAppResponse(outcome)
    \/ GetAllOpenSuccess
    \/ GetAllOpenError
    \/ GetAllSuccess
    \/ GetAllError
    \/ GetAllDecrypted
    \/ \E data \in ServerModels : GlobalModelResponse(data)
    \/ GlobalModelError
    \/ GlobalCounterDecrypted
    \/ GlobalTimeDecrypted
    \/ Reload

Spec == Init /\ [][Next]_vars

\* ------------------------------------------------------ anonymized upload
\* values crypto.getRandomValues may return in encryptDeterministic
IVs == {<<"iv1">>, <<"iv2">>}

\* variant: every action is counted once
RECURSIVE CountActionsOnce(_, _)
CountActionsOnce(counts, history) ==
    IF history = << >> THEN counts
    ELSE CountActionsOnce(MapSet(counts, Head(history).actionType, 1), Tail(history))

\* counts[actionType] = (counts[actionType] || 0) + 1 for each history entry;
\* Object.entries(counts) lists the actions in order of first occurrence
RECURSIVE CountActions(_, _)
CountActions(counts, history) ==
    IF history = << >> THEN counts
    ELSE CountActions(MapSet(counts, Head(history).actionType,
                             MapGetOr(counts, Head(history).actionType, 0) + 1),
                      Tail(history))

\* encryptDeterministic up to its first await: the IV of `data` is read from
\* ivMap or drawn, set and written to localStorage by saveIvMap
BeginEncryptDeterministic(data, fresh) ==
    IF data \in DOMAIN ivMap
    THEN UNCHANGED <<ivMap, storedIvMap>>
    ELSE /\ ivMap' = FnSet(ivMap, data, fresh)
         /\ storedIvMap' = FnSet(ivMap, data, fresh)

\* variant: the action name is sent as it is
AnonymizedEntryPlain(actionType, token, count) ==
    [actionType |-> actionType, actionTypeIV |-> token.iv, count |-> count]

\* anonymizedData.push({ actionType: ciphertext, actionTypeIV: iv, count })
AnonymizedEntry(actionType, token, count) ==
    [actionType |-> token.ciphertext, actionTypeIV |-> token.iv, count |-> count]

\* uploadAnonymizedData up to the first await of its loop; `history` keeps the
\* userHistory the call counted
uploadAnonymizedData ==
    /\ upload = NoUpload
    /\ Len(uploads) < MaxUploads
    /\ IF userHistory = << >> \/ appId = None
       THEN UNCHANGED <<ivMap, storedIvMap, upload>>
       ELSE LET counts == CountActions(EmptyMap, userHistory)
            IN \E fresh \in IVs :
                   /\ BeginEncryptDeterministic(counts[1].k, fresh)
                   /\ upload' = [pc |-> "encrypt", counts |-> counts,
                                 anonymizedData |-> << >>, history |-> userHistory]
    /\ UNCHANGED <<now, session, registryVars, dbRows, storedAppId, saveVars, modelVars, appId,
                   initPc, initData, cacheSteps, notified, committed, applied, gmInstalled,
                   installation, uploads, preloadVars, startup, updateLog>>

\* PredictionModel.forceUploadData, called by the application
ForceUploadData == TRUE /\ uploadAnonymizedData

\* the timers of scheduleDailyUpload, set once registerApp has settled
DailyUpload == initPc # "register" /\ uploadAnonymizedData

\* variant: the count of an entry is read from userHistory when it is pushed
UploadEncryptDoneRecounting ==
    /\ upload.pc = "encrypt"
    /\ LET entry == Head(upload.counts)
           token == encrypt(entry.k, ivMap[entry.k])
           data == Append(upload.anonymizedData, AnonymizedEntry(entry.k, token,
                                           MapGetOr(CountActions(EmptyMap, userHistory),
                                                    entry.k, 0)))
           rest == Tail(upload.counts)
       IN IF rest # << >>
          THEN /\ \E fresh \in IVs : BeginEncryptDeterministic(rest[1].k, fresh)
               /\ upload' = [upload EXCEPT !.counts = rest, !.anonymizedData = data]
               /\ UNCHANGED uploads
          ELSE /\ uploads' = Append(uploads, [installation |-> installation,
                                              session |-> session,
                                              appId |-> appId,
                                              interactions |-> data,
                                              history |-> upload.history])
               /\ upload' = NoUpload
               /\ UNCHANGED <<ivMap, storedIvMap>>
    /\ UNCHANGED <<now, session, registryVars, dbRows, storedAppId, saveVars, modelVars, appId,
                   initPc, initData, cacheSteps, notified, committed, applied, gmInstalled,
                   installation, preloadVars, startup, updateLog>>

\* `await this.encryptDeterministic(actionType)` settles: the entry is pushed;
\* the loop goes on to the next action or the body is POSTed
UploadEncryptDone ==
    /\ upload.pc = "encrypt"
    /\ LET entry == Head(upload.counts)
           token == encrypt(entry.k, ivMap[entry.k])
           data == Append(upload.anonymizedData, AnonymizedEntry(entry.k, token, entry.v))
           rest == Tail(upload.counts)
       IN IF rest # << >>
          THEN /\ \E fresh \in IVs : BeginEncryptDeterministic(rest[1].k, fresh)
               /\ upload' = [upload EXCEPT !.counts = rest, !.anonymizedData = data]
               /\ UNCHANGED uploads
          ELSE /\ uploads' = Append(uploads, [installation |-> installation,
                                              session |-> session,
                                              appId |-> appId,
                                              interactions |-> data,
                                              history |-> upload.history])
               /\ upload' = NoUpload
               /\ UNCHANGED <<ivMap, storedIvMap>>
    /\ UNCHANGED <<now, session, registryVars, dbRows, storedAppId, saveVars, modelVars, appId,
                   initPc, initData, cacheSteps, notified, committed, applied, gmInstalled,
                   installation, preloadVars, startup, updateLog>>

\* the awaited encryption throws: uploadAnonymizedData rejects, nothing is sent
UploadEncryptError ==
    /\ upload.pc = "encrypt"
    /\ upload' = NoUpload
    /\ UNCHANGED <<now, session, registryVars, dbRows, storedAppId, saveVars, modelVars, appId,
                   initPc, initData, cacheSteps, notified, committed, applied, gmInstalled,
                   installation, ivMap, storedIvMap, uploads, preloadVars, startup, updateLog>>

\* the component an application binds to an action
BoundComponent(actionType) == (CHOOSE b \in Bindings : b[1] = actionType)[2]

\* the rows earlier page loads left in the object store for the given actions
StoredRows(actionTypes) ==
    [k \in DOMAIN actionTypes |->
        EncryptedInteraction(
            [interaction |-> [componentId |-> BoundComponent(actionTypes[k]),
                              actionType |-> actionTypes[k], timestamp |-> 0],
             encryptedActionType |-> encrypt(actionTypes[k], RandomIV(k, "actionType")),
             encryptedComponentId |-> encrypt(BoundComponent(actionTypes[k]),
                                              RandomIV(k, "componentId"))])]

StoredHistories == {<< >>, <<A>>, <<A, B, A>>}

\* a page load that finds the store and localStorage as `rows` and `stored`
PageLoad(rows, stored) ==
    /\ now = 0
    /\ session = 1
    /\ dbRows = rows
    /\ storedAppId = stored
    /\ saves = << >>
    /\ txQueue = << >>
    /\ appId = stored
    /\ IF stored # None
       THEN initPc = "open" /\ openQueue = <<GetAll>>
       ELSE initPc = "register" /\ openQueue = << >>
    /\ notified = << >>
    /\ committed = << >>
    /\ storedIvMap = EmptyFn
    /\ assetCache = {}
    /\ startup = Loaded
    /\ updateLog = << >>
    /\ StartSession

UploadInit ==
    /\ installation = 1
    /\ uploads = << >>
    /\ \E h \in StoredHistories, stored \in {None, ServerAppId} : PageLoad(StoredRows(h), stored)

\* the library starts in another browser profile: its own object store and
\* localStorage; the server keeps what it received
NewInstallation ==
    /\ installation < MaxInstallations
    /\ upload = NoUpload
    /\ initPc \in {"ready", "failed"}
    /\ installation' = installation + 1
    /\ session' = 1
    /\ \E h \in StoredHistories, stored \in {None, ServerAppId} :
           /\ dbRows' = StoredRows(h)
           /\ storedAppId' = stored
           /\ appId' = stored
           /\ IF stored # None
              THEN initPc' = "open" /\ openQueue' = <<GetAll>>
              ELSE initPc' = "register" /\ openQueue' = << >>
    /\ storedIvMap' = EmptyFn
    /\ ivMap' = EmptyFn
    /\ userHistory' = << >>
    /\ transitionMatrix' = EmptyFn
    /\ globalActionCounter' = EmptyMap
    /\ timePatterns' = EmptyMap
    /\ trackedComponents' = EmptyMap
    /\ actionComponentMap' = EmptyFn
    /\ cacheSteps' = [c \in Components |-> 0]
    /\ initData' = NoData
    /\ applied' = 0
    /\ gmInstalled' = FALSE
    /\ autoPreload' = preloadPredictedComponent(now)
    /\ componentCache' = NewComponentCache
    /\ assetCache' = {}
    /\ UNCHANGED <<now, saves, txQueue, notified, committed, upload, uploads, startup, updateLog>>

UploadNext ==
    \/ ForceUploadData
    \/ DailyUpload
    \/ UploadEncryptDone
    \/ UploadEncryptError
    \/ \E outcome \in {"ok", "noAppId", "error"} : RegisterAppResponse(outcome)
    \/ GetAllOpenSuccess
    \/ GetAllOpenError
    \/ GetAllSuccess
    \/ GetAllError
    \/ GetAllDecrypted
    \/ \E data \in ServerModels : GlobalModelResponse(data)
    \/ GlobalModelError
    \/ GlobalCounterDecrypted
    \/ GlobalTimeDecrypted
    \/ Reload
    \/ NewInstallation

UploadSpec == UploadInit /\ [][UploadNext]_vars

\* ------------------------------------------ startup over rows that may not decrypt
\* a row whose ciphertext does not authenticate under the build's key and its
\* stored IV (written under another key, or damaged in the store)
DamagedRow(row) == [row EXCEPT !.actionTypeIV = <<"damaged">>]

\* the stores a page load may find: the rows of earlier sessions, none or one
\* of them damaged
StoredRowsMaybeDamaged ==
    {StoredRows(h) : h \in StoredHistories}
        \cup UNION {{[StoredRows(h) EXCEPT ![k] = DamagedRow(@)] : k \in DOMAIN h} :
                       h \in StoredHistories}

ListInit ==
    /\ installation = 1
    /\ uploads = << >>
    /\ \E rows \in StoredRowsMaybeDamaged, stored \in {None, ServerAppId} : PageLoad(rows, stored)

ListNext ==
    \/ Tick
    \/ \E outcome \in {"ok", "noAppId", "error"} : RegisterAppResponse(outcome)
    \/ GetAllOpenSuccess
    \/ GetAllOpenError
    \/ GetAllSuccess
    \/ GetAllError
    \/ GetAllDecryptThrows
    \/ GetAllDecrypted
    \/ \E data \in ServerModels : GlobalModelResponse(data)
    \/ GlobalModelError
    \/ GlobalCounterDecrypted
    \/ GlobalTimeDecrypted

ListSpec == ListInit /\ [][ListNext]_vars

\* ------------------------------------ global-model answers that may not decrypt
\* a key of the answer that does not decrypt under the IV the answer gives for it
GmEntryUndecryptable(action, iv, value) ==
    [ct |-> encrypt(action, iv).ciphertext, iv |-> <<"other">>, value |-> value]

\* bodies that answer 200 and whose install fails at a key, besides ServerModels
ServerAnswers ==
    ServerModels \cup
    { [globalActionCounter |-> <<GmEntryUndecryptable(A, <<"s1">>, 2)>>,
       timePatterns |-> <<GmEntry(A, <<"s1">>, (0 :> 2))>>],
      [globalActionCounter |-> <<GmEntry(B, <<"s1">>, 2), GmEntryUndecryptable(A, <<"s2">>, 1)>>,
       timePatterns |-> << >>],
      [globalActionCounter |-> <<GmEntry(B, <<"s1">>, 2)>>,
       timePatterns |-> <<GmEntryUndecryptable(B, <<"s1">>, (0 :> 2))>>],
      \* one action uploaded under two IVs, so under two ciphertext keys
      [globalActionCounter |-> <<GmEntry(A, <<"s1">>, 2), GmEntry(A, <<"s2">>, 3)>>,
       timePatterns |-> <<GmEntry(A, <<"s1">>, (0 :> 2)), GmEntry(A, <<"s2">>, (0 :> 1 @@ 1 :> 2))>>] }

FetchNext ==
    \/ Tick
    \/ \E outcome \in {"ok", "noAppId", "error"} : RegisterAppResponse(outcome)
    \/ GetAllOpenSuccess
    \/ GetAllOpenError
    \/ GetAllSuccess
    \/ GetAllError
    \/ GetAllDecrypted
    \/ \E data \in ServerAnswers : GlobalModelResponse(data)
    \/ GlobalModelError
    \/ GlobalCounterDecrypted
    \/ GlobalTimeDecrypted

FetchSpec == UploadInit /\ [][FetchNext]_vars

\* ------------------------------------------- tracking with free (re)binding
\* The registry and the save path alone, while initialize() is still awaiting
\* the answer of /register-app: any action may be bound to any tracked
\* component, and bound again to another one.
TrackNext ==
    \/ Tick
    \/ \E id \in Components, type \in ComponentTypes : TrackComponent(id, type, NoMetadata)
    \/ \E a \in Actions, id \in Components : AssociateActionWithComponent(a, id)
    \/ \E a \in Actions : TrackInteraction(a)
    \/ \E i \in 1..MaxSaves : EncryptActionTypeDone(i)
    \/ \E i \in 1..MaxSaves : EncryptComponentIdDone(i)
    \/ \E i \in 1..MaxSaves : EncryptError(i)
    \/ \E i \in 1..MaxSaves : OpenSuccess(i)
    \/ \E i \in 1..MaxSaves : OpenError(i)
    \/ \E i \in 1..MaxSaves : TransactionComplete(i)
    \/ \E i \in 1..MaxSaves : TransactionError(i)

TrackSpec == Init /\ [][TrackNext]_vars

\* PredictionModel.predict(timestamp) in the current state
predict(timestamp) == predictNextAction(Model, actionComponentMap, timestamp, now)

\* ------------------------------------------------------------- preloading
\* fetchAndCacheComponent: caches.open resolves and fetch(componentResourceUrl)
\* is issued
AutoPreloadCacheOpened ==
    /\ autoPreload.pc = "cacheOpen"
    /\ autoPreload' = [autoPreload EXCEPT !.pc = "fetch"]
    /\ UNCHANGED <<now, session, registryVars, dbRows, storedAppId, saveVars, modelVars, appId,
                   initPc, initData, cacheSteps, notified, committed, applied, gmInstalled,
                   uploadVars, assetCache, componentCache, startup, updateLog>>

\* fetchAndCacheComponent: the fetch settles; an ok response is put into the
\* cache, another status or a rejection is logged
AutoPreloadFetched(outcome) ==
    /\ autoPreload.pc = "fetch"
    /\ autoPreload' = [autoPreload EXCEPT !.pc = "done"]
    /\ assetCache' = IF outcome = "ok" THEN assetCache \cup {autoPreload.url} ELSE assetCache
    /\ UNCHANGED <<now, session, registryVars, dbRows, storedAppId, saveVars, modelVars, appId,
                   initPc, initData, cacheSteps, notified, committed, applied, gmInstalled,
                   uploadVars, componentCache, startup, updateLog>>

\* ComponentPreloader.preloadNextComponent on the application's preloader
preloadNextComponent ==
    /\ LET prediction == predict(now)
       IN componentCache' =
              IF /\ prediction.componentId # None
                 /\ CacheStep(componentCache, trackedComponents, prediction.componentId)
              THEN componentCache \cup {prediction.componentId}
              ELSE componentCache
    /\ UNCHANGED <<now, session, registryVars, dbRows, storedAppId, saveVars, modelVars, appId,
                   initPc, initData, cacheSteps, notified, committed, applied, gmInstalled,
                   uploadVars, autoPreload, assetCache, startup, updateLog>>

PreloadNext ==
    \/ Tick
    \/ \E id \in Components, type \in ComponentTypes : TrackComponent(id, type, NoMetadata)
    \/ \E b \in Bindings : AssociateActionWithComponent(b[1], b[2])
    \/ \E a \in Actions : TrackInteraction(a)
    \/ \E i \in 1..MaxSaves : EncryptActionTypeDone(i)
    \/ \E i \in 1..MaxSaves : EncryptComponentIdDone(i)
    \/ \E i \in 1..MaxSaves : OpenSuccess(i)
    \/ \E i \in 1..MaxSaves : TransactionComplete(i)
    \/ AutoPreloadCacheOpened
    \/ \E outcome \in {"ok", "status", "error"} : AutoPreloadFetched(outcome)
    \/ preloadNextComponent

PreloadSpec == Init /\ [][PreloadNext]_vars

\* ------------------------------------------------------- the update path
\* updateTransitionMatrix alone, applied to any sequence of action names,
\* among them a name that contains the separator of Array.prototype.join
MaxUpdates == 5

CommaName == <<"A", ",", "B">>

\* a second one, so that two different windows of one length join to one string
CommaNameReversed == <<"B", ",", "A">>

UpdateActions == {A, B, CommaName, CommaNameReversed}

\* one call updateTransitionMatrix(interaction, interaction.timestamp), as
\* processHistoricalData and updateModel make it
ApplyUpdate(actionType) ==
    /\ Len(updateLog) < MaxUpdates
    /\ SetModel(updateTransitionMatrix(Model,
                                       [componentId |-> c1, actionType |-> actionType,
                                        timestamp |-> now],
                                       now))
    /\ applied' = applied + 1
    /\ updateLog' = Append(updateLog, actionType)
    /\ UNCHANGED <<now, session, registryVars, dbRows, storedAppId, saveVars, appId,
                   initPc, initData, cacheSteps, notified, committed, gmInstalled,
                   uploadVars, preloadVars, startup>>

UpdateNext ==
    \/ Tick
    \/ \E a \in UpdateActions : ApplyUpdate(a)

UpdateSpec == Init /\ [][UpdateNext]_vars

\* ------------------------------------------- uploads during model updates
\* uploadAnonymizedData started by the application or the daily timer while
\* updateTransitionMatrix goes on being applied between its awaits
ConcurrentUploadNext ==
    \/ \E outcome \in {"ok", "noAppId", "error"} : RegisterAppResponse(outcome)
    \/ \E a \in Actions : ApplyUpdate(a)
    \/ ForceUploadData
    \/ DailyUpload
    \/ UploadEncryptDone
    \/ UploadEncryptError

ConcurrentUploadSpec == Init /\ [][ConcurrentUploadNext]_vars

\* ---------------------------------------------------------- the registry
\* The registry alone, called in any order with any arguments: two types and
\* two metadata values per component id, any action bound to any component id,
\* tracked or not.
RegistryTypes == {"page", "button"}
RegistryMetadata == {NoMetadata, <<"m">>}

\* ComponentTracker.getTrackedComponents: Array.from(trackedComponents.values())
getTrackedComponents(tracked) == MapValues(tracked)

RegistryNext ==
    \/ \E id \in Components, type \in RegistryTypes, metadata \in RegistryMetadata :
           TrackComponent(id, type, metadata)
    \/ \E a \in Actions, id \in Components : AssociateActionWithComponent(a, id)

RegistrySpec == Init /\ [][RegistryNext]_vars

\* ------------------------------------------------------ module evaluation
\* Loading the bundle evaluates the modules in dependency order: the
\* componentTracker module (a class definition), the databaseManager module,
\* then the predictionModel module and the body of index.

\* before the bundle is evaluated nothing of the library exists
NotLoaded == [pc |-> "idle", predicted |-> [action |-> None, componentId |-> None], url |-> << >>]

StartupInit ==
    /\ now = 0
    /\ session = 1
    /\ installation = 1
    /\ dbRows = << >>
    /\ storedAppId \in {None, ServerAppId}
    /\ storedIvMap = EmptyFn
    /\ assetCache = {}
    /\ uploads = << >>
    /\ saves = << >> /\ openQueue = << >> /\ txQueue = << >>
    /\ notified = << >> /\ committed = << >>
    /\ userHistory = << >>
    /\ transitionMatrix = EmptyFn
    /\ globalActionCounter = EmptyMap
    /\ timePatterns = EmptyMap
    /\ trackedComponents = EmptyMap
    /\ actionComponentMap = EmptyFn
    /\ cacheSteps = [c \in Components |-> 0]
    /\ initData = NoData
    /\ applied = 0
    /\ gmInstalled = FALSE
    /\ ivMap = EmptyFn
    /\ upload = NoUpload
    /\ componentCache = NewComponentCache
    /\ appId = None
    /\ initPc = "unloaded"
    /\ autoPreload = NotLoaded
    /\ updateLog = << >>
    /\ \E key \in Keys : startup = [key |-> key, pc |-> "start", opens |-> 0, subscribers |-> 0]

\* variant: the module-level DatabaseManager.getInstance() runs ahead of the
\* key tests
EvaluateDatabaseManagerOpeningFirst ==
    /\ startup.pc = "start"
    /\ startup' = IF ~validateKey(startup.key)
                  THEN [startup EXCEPT !.pc = "failed", !.opens = @ + 1]
                  ELSE [startup EXCEPT !.pc = "databaseManager", !.opens = @ + 1]
    /\ UNCHANGED <<now, session, registryVars, dbRows, storedAppId, saveVars, modelVars, appId,
                   initPc, initData, cacheSteps, notified, committed, applied, gmInstalled,
                   uploadVars, preloadVars, updateLog>>

\* the databaseManager module: the key tests throw out of the evaluation;
\* otherwise the module-level DatabaseManager.getInstance() constructs the
\* manager, whose initializeDatabase opens the store
EvaluateDatabaseManager ==
    /\ startup.pc = "start"
    /\ startup' = IF ~validateKey(startup.key)
                  THEN [startup EXCEPT !.pc = "failed"]
                  ELSE [startup EXCEPT !.pc = "databaseManager", !.opens = @ + 1]
    /\ UNCHANGED <<now, session, registryVars, dbRows, storedAppId, saveVars, modelVars, appId,
                   initPc, initData, cacheSteps, notified, committed, applied, gmInstalled,
                   uploadVars, preloadVars, updateLog>>

\* the predictionModel module: the same key tests, then new PredictionModel()
\* (which subscribes updateModel) and initialize() up to its first await in
\* registerApp; then the body of index: ComponentPreload.getInstance()
EvaluatePredictionModel ==
    /\ startup.pc = "databaseManager"
    /\ IF ~validateKey(startup.key)
       THEN /\ startup' = [startup EXCEPT !.pc = "failed"]
            /\ UNCHANGED <<appId, initPc, openQueue, autoPreload>>
       ELSE /\ startup' = [startup EXCEPT !.pc = "loaded", !.subscribers = @ + 1]
            /\ appId' = storedAppId
            /\ IF storedAppId # None
               THEN initPc' = "open" /\ openQueue' = <<GetAll>>
               ELSE initPc' = "register" /\ openQueue' = << >>
            /\ autoPreload' = preloadPredictedComponent(now)
    /\ UNCHANGED <<now, session, registryVars, dbRows, storedAppId, saves, txQueue, modelVars,
                   initData, cacheSteps, notified, committed, applied, gmInstalled,
                   uploadVars, assetCache, componentCache, updateLog>>

StartupNext ==
    \/ Tick
    \/ EvaluateDatabaseManager
    \/ EvaluatePredictionModel
    \/ \E outcome \in {"ok", "noAppId", "error"} : RegisterAppResponse(outcome)
    \/ GetAllOpenSuccess
    \/ GetAllOpenError
    \/ GetAllSuccess
    \/ GetAllError
    \/ GlobalModelError

StartupSpec == StartupInit /\ [][StartupNext]_vars

\* ------------------------------------------------------------- properties

NoPrediction == [action |-> None, componentId |-> None]

CounterSum == SumSeq(MapValues(globalActionCounter))

\* C1: within a session the fetch/cache step of a component id runs at most
\* once, however often the update path preloads that id.
PreloadAtMostOnce == \A c \in Components : cacheSteps[c] <= 1

\* C2: the length of UserHistory never exceeds historyLength and equals
\* min(updates applied, historyLength).
HistoryLengthBounded ==
    /\ Len(userHistory) <= historyLength
    /\ Len(userHistory) = Min(applied, historyLength)

\* C3 as stated: the sum of the GlobalActionCounter values equals the number of
\* interactions the model has observed in the session (replayed plus notified).
CounterSumIsObserved == CounterSum = applied

\* C3: as long as no global-model answer has been installed in the session, the
\* sum of the GlobalActionCounter values equals the number of updates applied to
\* the model in the session (rows replayed plus records notified).
CounterSumBeforeInstall == ~gmInstalled => CounterSum = applied

CounterSumBeforeInstallWitness ==
    /\ ~gmInstalled /\ initPc = "ready" /\ applied >= 2
    /\ \E i \in DOMAIN globalActionCounter : globalActionCounter[i].v >= 2

\* a save whose database open or transaction fails in this step
FailsNow(i) ==
    /\ i \in DOMAIN saves /\ saves[i].error = None
    /\ saves'[i].error \in {OpenFailure, SaveFailure}

SavesCommitInCallOrder ==
    /\ \A j, k \in DOMAIN committed : j < k => committed[j] < committed[k]
    /\ \A j, k \in DOMAIN notified : j < k => notified[j] < notified[k]

\* C6: with the model state and the registry as they are, predict returns the
\* same value for the same argument whatever the wall clock reads when the
\* call executes, now or later.
PredictIgnoresWallClock ==
    \A ts \in PredictArgs, clock \in now..MaxClock :
        predictNextAction(Model, actionComponentMap, ts, clock) = predict(ts)

\* C7: with UserHistory and GlobalActionCounter both empty, predict returns
\* {none, none} for every timestamp argument.
ColdStartPredictsNone ==
    (userHistory = << >> /\ globalActionCounter = EmptyMap) =>
        \A ts \in PredictArgs : predict(ts) = NoPrediction

ColdStartPredictsNoneWitness ==
    /\ userHistory = << >> /\ globalActionCounter = EmptyMap
    /\ timePatterns # EmptyMap /\ initPc = "ready"

\* the TransitionMatrix rows that match a suffix of the history
MatchingRows ==
    {FnGetOr(FnGetOr(transitionMatrix, length, EmptyFn),
             Join(ActionTypes(SliceLast(userHistory, length))), EmptyMap) :
         length \in 1..Min(maxPatternLength, Len(userHistory))} \ {EmptyMap}

\* C8: when at least one row matches a suffix of the history and every
\* matching row holds the one action b, predict returns b with its component.
SoleSuccessorPredicted ==
    \A b \in Actions :
        (MatchingRows # {} /\ \A row \in MatchingRows : MapKeys(row) = <<b>>) =>
            \A ts \in PredictArgs :
                predict(ts) = [action |-> b,
                               componentId |-> getComponentByAction(actionComponentMap, b)]

\* the first entry, in insertion order, that holds the greatest score
FirstMax(combined) ==
    CHOOSE i \in DOMAIN combined :
        /\ \A j \in DOMAIN combined : ~RLess(combined[i].v, combined[j].v)
        /\ \A j \in 1..(i - 1) : RLess(combined[j].v, combined[i].v)

\* C9: when the score map is computed and not empty, predict returns the action
\* of the first entry, in insertion order, among those with the greatest score.
TieGoesToFirstInserted ==
    ~(userHistory = << >> /\ globalActionCounter = EmptyMap) =>
        \A ts \in PredictArgs :
            LET combined == CombinedScores(Model, ts, now)
            IN Len(combined) > 0 => predict(ts).action = combined[FirstMax(combined)].k

TieGoesToFirstInsertedWitness ==
    /\ userHistory # << >>
    /\ \E ts \in PredictArgs :
           LET combined == CombinedScores(Model, ts, now)
           IN /\ Len(combined) >= 2
              /\ \E j \in DOMAIN combined :
                     j # FirstMax(combined) /\ combined[j].v = combined[FirstMax(combined)].v

\* C10: when the score map is empty, predict returns an action with the
\* greatest GlobalActionCounter count and the component bound to it, and
\* {none, none} only when the counter is empty; after one update and nothing
\* else, predict returns that update's action with its component.
FallbackIsMostFrequent ==
    \A ts \in PredictArgs :
        /\ Len(CombinedScores(Model, ts, now)) = 0 =>
               IF globalActionCounter = EmptyMap THEN predict(ts) = NoPrediction
               ELSE /\ \E i \in DOMAIN globalActionCounter :
                           /\ predict(ts).action = globalActionCounter[i].k
                           /\ \A j \in DOMAIN globalActionCounter :
                                  globalActionCounter[j].v <= globalActionCounter[i].v
                    /\ predict(ts).componentId =
                           getComponentByAction(actionComponentMap, predict(ts).action)
        /\ (applied = 1 /\ ~gmInstalled) =>
               predict(ts) = [action |-> userHistory[1].actionType,
                              componentId |-> getComponentByAction(actionComponentMap,
                                                                   userHistory[1].actionType)]

FallbackIsMostFrequentWitness ==
    /\ Len(globalActionCounter) >= 2
    /\ globalActionCounter[1].v # globalActionCounter[2].v
    /\ \E ts \in PredictArgs : Len(CombinedScores(Model, ts, now)) = 0

Range(s) == {s[i] : i \in DOMAIN s}

\* the action name an uploaded entry stands for
EntryAction(e) == decrypt(e.actionType, e.actionTypeIV)

\* C11: within one installation, encryptDeterministic gives every action name
\* the same (ciphertext, iv) pair on every call, in one session and across
\* sessions.
DeterministicAcrossSessions ==
    \A u, v \in Range(uploads) :
        u.installation = v.installation =>
            \A e \in Range(u.interactions), f \in Range(v.interactions) :
                EntryAction(e) = EntryAction(f) =>
                    e.actionType = f.actionType /\ e.actionTypeIV = f.actionTypeIV

\* C12: two installations that upload the same action name send the same
\* actionType token.
JoinableAcrossInstallations ==
    \A u, v \in Range(uploads) :
        u.installation # v.installation =>
            \A e \in Range(u.interactions), f \in Range(v.interactions) :
                EntryAction(e) = EntryAction(f) => e.actionType = f.actionType

\* the request of initialize() now on its way to the remote service, as path
\* segments and body
RequestsInFlight ==
    IF initPc = "register" THEN {[path |-> << <<"register-app">> >>, body |-> << >>]}
    ELSE IF initPc = "gmFetch" THEN {[path |-> << <<"global-model">>, appId >>, body |-> << >>]}
    ELSE {}

PlainNames == Actions \cup {C} \cup Components

\* a value of the form encrypt produces, under the IV that goes with it
IsCiphertextUnder(x, iv) == Len(x) = 3 /\ x[1] = "ct" /\ x[3] = iv

\* C13: rows of the interaction store and messages to the remote service hold
\* action names and component ids only as ciphertext with its IV, never plain.
OnlyCiphertextLeaves ==
    /\ \A r \in Range(dbRows) :
           /\ IsCiphertextUnder(r.actionType, r.actionTypeIV)
           /\ IsCiphertextUnder(r.componentId, r.componentIdIV)
           /\ DOMAIN r = {"actionType", "actionTypeIV", "componentId", "componentIdIV",
                          "timestamp"}
    /\ \A u \in Range(uploads) :
           /\ u.appId \notin PlainNames
           /\ \A e \in Range(u.interactions) :
                  /\ IsCiphertextUnder(e.actionType, e.actionTypeIV)
                  /\ DOMAIN e = {"actionType", "actionTypeIV", "count"}
    /\ \A q \in RequestsInFlight :
           /\ q.body = << >>
           /\ \A k \in DOMAIN q.path : q.path[k] \notin PlainNames

OnlyCiphertextLeavesWitness ==
    /\ dbRows # << >>
    /\ \E u \in Range(uploads) : Len(u.interactions) = 2
    /\ initPc = "gmFetch"

ListReturnsSavedRecords ==
    [][/\ committed' # committed =>
             \E i \in DOMAIN saves :
                 /\ committed' = Append(committed, i)
                 /\ DecryptedRecords(dbRows') =
                        Append(DecryptedRecords(dbRows), saves[i].interaction)
       /\ committed' = committed => dbRows' = dbRows
       /\ (initPc # "decrypt" /\ initPc' = "decrypt") => initData'.rows = dbRows]_vars

\* two records saved one after another are listed by a later page load
ListReturnsSavedRecordsWitness ==
    /\ session = 2
    /\ initPc = "decrypt"
    /\ Len(initData.rows) = 2
    /\ DecryptedRecords(initData.rows)[1].actionType \in Actions
    /\ DecryptedRecords(initData.rows)[2].componentId \in Components


LoggedFailures == {OpenFailure, SaveFailure}

\* trackInteraction drops the promise saveInteraction returns (no await, then
\* or catch): a rejection of it has no handler in the library and is delivered
\* to the application as an unhandled rejection
UnhandledRejections == {i \in DOMAIN saves : saves[i].pc = "rejected"}

\* C16: every failure of a save started by trackInteraction (encryption, open
\* or transaction failure) is logged by the library and caught by it, so that
\* none reaches the application.
SaveFailuresCaughtAndLogged ==
    \A i \in DOMAIN saves :
        saves[i].pc = "rejected" =>
            /\ saves[i].error \in LoggedFailures
            /\ i \notin UnhandledRejections


\* an appId of the form fallback-<time>
IsFallbackAppId(id) == Len(id) = 2 /\ id[1] = "fallback"

\* C17: whenever registration has been attempted with no appId in storage and
\* has not succeeded (nothing was stored), appId is fallback-<time> and
\* initialize() has moved on to scheduling and the store replay.
RegistrationFailureFallsBack ==
    (initPc # "register" /\ storedAppId = None) => IsFallbackAppId(appId)


\* C18: the /register-app request is in flight exactly while initPc is
\* "register". A page load that finds a stored appId adopts it and sends no
\* request; a page load that finds none sends one, and no further request is
\* sent in that session. The answer either stores the returned appId or stores
\* nothing; a stored appId is never replaced, and it is the appId of every
\* later session.
RegistersOnlyWithoutStoredId ==
    [][/\ (initPc # "register" /\ initPc' = "register") =>
             (session' = session + 1 /\ storedAppId = None)
       /\ session' = session + 1 =>
             IF storedAppId # None
             THEN appId' = storedAppId /\ initPc' = "open" /\ openQueue' = <<GetAll>>
             ELSE initPc' = "register"
       /\ (initPc = "register" /\ initPc' # "register") =>
             /\ session' = session
             /\ appId' = ServerAppId => storedAppId' = ServerAppId
             /\ appId' # ServerAppId => storedAppId' = None
       /\ storedAppId # None => storedAppId' = storedAppId
       /\ storedAppId' # None => appId' = storedAppId']_vars

\* a second page load has adopted the appId the first one registered and
\* stored, and is replaying the store with no request sent
RegistersOnlyWithoutStoredIdWitness ==
    /\ session = 2
    /\ storedAppId = ServerAppId
    /\ appId = storedAppId
    /\ initPc = "open"


\* C20: when getAllInteractions has resolved and the replay is done, the
\* global model is requested exactly if the replayed history is shorter than
\* minActionsThreshold or the transition matrix is empty; and it is requested
\* at no other moment.
GlobalModelRequestedWhenSparse ==
    [][/\ (initPc \in {"getAll", "decrypt"} /\ initPc' \in {"gmFetch", "ready"}) =>
             (initPc' = "gmFetch" <=>
                  (Len(userHistory') < minActionsThreshold \/ DOMAIN transitionMatrix' = {}))
       /\ (initPc # "gmFetch" /\ initPc' = "gmFetch") => initPc \in {"getAll", "decrypt"}]_vars


\* a step of checkAndFetchGlobalModel after its fetch: the answer arrives or one
\* awaited decryption of the install loops settles
InstallStep ==
    /\ initPc \in {"gmFetch", "gmCounter", "gmTime"}
    /\ initPc' # initPc \/ initData' # initData

\* C21: no step of the global-model install changes UserHistory or
\* TransitionMatrix, and none discards what the model has learned locally:
\* every action keeps a GlobalActionCounter value at least as large as before
\* and every action with time data keeps time data.
GlobalModelOverridesOnlyEmpties ==
    [][InstallStep =>
          /\ userHistory' = userHistory
          /\ transitionMatrix' = transitionMatrix
          /\ \A i \in DOMAIN globalActionCounter :
                MapGetOr(globalActionCounter', globalActionCounter[i].k, 0)
                    >= globalActionCounter[i].v
          /\ \A i \in DOMAIN timePatterns : MapHas(timePatterns', timePatterns[i].k)]_vars


\* C22: a prediction without a component preloads nothing: the module-load
\* preload goes on to fetch and to cache only if what was predicted at load
\* has a component, and preloadNextComponent leaves the application's cache
\* as it is while predict() names no component.
NonePredictionPreloadsNothing ==
    /\ [](autoPreload.predicted.componentId = None =>
              (autoPreload.pc \notin {"fetch", "done"} /\ autoPreload.url \notin assetCache))
    /\ [][predict(now).componentId = None => componentCache' = componentCache]_vars


\* the key is missing or is not exactly 64 hexadecimal characters
IllFormed(key) ==
    \/ ~key.defined
    \/ Len(key.text) # KeyLength
    \/ \E i \in DOMAIN key.text : key.text[i] \notin HexDigits

\* C23: with a missing or ill-formed ENCRYPTION_KEY module evaluation never
\* gets past the key test: no store has been opened, the model has not
\* subscribed to saved interactions, initialize() has not run (no
\* /register-app or other request, no store read), and the module-load
\* preload has not started.
IllFormedKeyFailsFirst ==
    IllFormed(startup.key) =>
        /\ startup.pc \in {"start", "failed"}
        /\ startup.opens = 0
        /\ startup.subscribers = 0
        /\ initPc = "unloaded"
        /\ openQueue = << >> /\ txQueue = << >>
        /\ autoPreload = NotLoaded

\* a build with a 64-character key holding a non-hexadecimal character has
\* failed at startup
IllFormedKeyFailsFirstWitness ==
    /\ startup.pc = "failed"
    /\ Len(startup.key.text) = KeyLength
    /\ startup.opens = 0
    /\ initPc = "unloaded"


\* C24: no registry call changes, removes or moves a descriptor that is
\* registered: the list of descriptors only grows at its end (so it is in
\* first-registration order and keeps the type and metadata first given), and
\* no id is listed twice.
RegisteredDescriptorKept ==
    [][LET before == getTrackedComponents(trackedComponents)
           after == getTrackedComponents(trackedComponents')
       IN /\ Len(after) >= Len(before)
          /\ SubSeq(after, 1, Len(before)) = before
          /\ \A i, j \in DOMAIN after : after[i].id = after[j].id => i = j]_vars

\* c2 was registered before c1, with different types and metadata; every
\* further trackComponent of either id is a duplicate
RegisteredDescriptorKeptWitness ==
    /\ Len(trackedComponents) = 2
    /\ getTrackedComponents(trackedComponents)[1].id = c2
    /\ getTrackedComponents(trackedComponents)[1].type = "button"
    /\ getTrackedComponents(trackedComponents)[2].type = "page"
    /\ getTrackedComponents(trackedComponents)[1].metadata # NoMetadata

\* C25: every binding of an action refers to a tracked component, and an
\* action that has no binding resolves to none.
BindingsReferToTracked ==
    /\ \A a \in DOMAIN actionComponentMap :
          MapHas(trackedComponents, actionComponentMap[a])
    /\ \A a \in (Actions \cup {C}) \ DOMAIN actionComponentMap :
          getComponentByAction(actionComponentMap, a) = None

\* one action is bound while a component is still untracked (binding to it
\* was refused) and another action was never bound
BindingsReferToTrackedWitness ==
    /\ DOMAIN actionComponentMap = {A}
    /\ Len(trackedComponents) = 1
    /\ getComponentByAction(actionComponentMap, A) = trackedComponents[1].k
    /\ getComponentByAction(actionComponentMap, B) = None


\* the timestamps of a sequence of records never decrease
NonDecreasing(records) ==
    \A i, j \in DOMAIN records : i < j => records[i].timestamp <= records[j].timestamp

\* C26: when a page load replays the store into the still empty model, the
\* records are applied (and so appended to UserHistory) in non-decreasing
\* timestamp order, whatever the order of the rows in the store.
ReplayInTimestampOrder ==
    [][(initPc = "decrypt" /\ initPc' # "decrypt" /\ userHistory = << >>) =>
           NonDecreasing(userHistory')]_vars


\* C27: when initialize() completes straight after the replay and the replayed
\* model predicts an action with a bound component, that component has been
\* preloaded (its cache step has run in this session).
InitializationPrimesCache ==
    [][(initPc = "decrypt" /\ initPc' = "ready") =>
           LET m == processHistoricalData(Model, DecryptedRecords(initData.rows))
               prediction == predictNextAction(m, actionComponentMap, now, now)
           IN prediction.componentId # None => cacheSteps'[prediction.componentId] >= 1]_vars


\* the sequences of `length` names from `names`
RECURSIVE SeqsOf(_, _)
SeqsOf(names, length) ==
    IF length = 0 THEN {<< >>}
    ELSE {Append(p, a) : p \in SeqsOf(names, length - 1), a \in names}

\* the number of updates at which the last `length` actions applied before
\* joined to the string `pattern` and the action applied was `action`
TransitionsInLog(log, length, pattern, action) ==
    Cardinality({k \in DOMAIN log :
                    /\ k > length
                    /\ Join(SubSeq(log, k - length, k - 1)) = pattern
                    /\ log[k] = action})

\* the pattern strings of one length: the joins of that many action names and
\* whatever the matrix holds under the length
PatternStrings(tm, length) ==
    {Join(p) : p \in SeqsOf(UpdateActions, length)}
        \cup DOMAIN FnGetOr(tm, length, EmptyFn)

\* transitionMatrix.get(length)?.get(pattern)?.get(action) || 0
StoredCount(tm, length, pattern, action) ==
    MapGetOr(FnGetOr(FnGetOr(tm, length, EmptyFn), pattern, EmptyMap), action, 0)

\* C28: for every length up to maxPatternLength, every pattern string of that
\* length and every action, the count stored under the pattern is the number
\* of updates, in the order applied, at which the last `length` actions of the
\* history before appending joined to that pattern and the action applied was
\* that action.
TransitionsCountUpdates ==
    \A length \in 1..maxPatternLength :
        \A pattern \in PatternStrings(transitionMatrix, length), action \in UpdateActions :
            StoredCount(transitionMatrix, length, pattern, action)
                = TransitionsInLog(updateLog, length, pattern, action)

\* A was followed by B twice and the pattern A,B by A once
TransitionsCountUpdatesWitness ==
    /\ updateLog = <<A, B, A, B>>
    /\ StoredCount(transitionMatrix, 1, Join(<<A>>), B) = 2
    /\ StoredCount(transitionMatrix, 2, Join(<<A, B>>), A) = 1


\* pattern.split(',').length: one more than the number of separators
SplitLength(pattern) == Cardinality({i \in DOMAIN pattern : pattern[i] = ","}) + 1

\* C29: every length stored in TransitionMatrix is in 1..maxPatternLength,
\* every pattern stored under a length splits on ',' into that many names, and
\* the counts of its row sum to at least 1.
PatternsSplitToLength ==
    \A length \in DOMAIN transitionMatrix :
        /\ length \in 1..maxPatternLength
        /\ \A pattern \in DOMAIN transitionMatrix[length] :
              /\ SplitLength(pattern) = length
              /\ SumSeq(MapValues(transitionMatrix[length][pattern])) >= 1


\* sum of the counts a timeData map holds for the hours in `hours`
RECURSIVE HourCounts(_, _)
HourCounts(timeData, hours) ==
    IF hours = {} THEN 0
    ELSE LET hour == CHOOSE h \in hours : TRUE
         IN timeData[hour] + HourCounts(timeData, hours \ {hour})

\* number of times `action` was counted as the successor of one of `patterns`
RECURSIVE SuccessorCount(_, _, _)
SuccessorCount(level, patterns, action) ==
    IF patterns = {} THEN 0
    ELSE LET pattern == CHOOSE p \in patterns : TRUE
         IN MapGetOr(level[pattern], action, 0)
              + SuccessorCount(level, patterns \ {pattern}, action)

\* C30: every action that is a successor in TransitionMatrix or a key of
\* TimePatterns is a key of GlobalActionCounter, whose count is at least the
\* action's count in TimePatterns and among the successors of each length.
CounterCoversModel ==
    /\ \A i \in DOMAIN timePatterns :
          /\ MapHas(globalActionCounter, timePatterns[i].k)
          /\ MapGetOr(globalActionCounter, timePatterns[i].k, 0)
                >= HourCounts(timePatterns[i].v, DOMAIN timePatterns[i].v)
    /\ \A length \in DOMAIN transitionMatrix :
          \A pattern \in DOMAIN transitionMatrix[length] :
              \A j \in DOMAIN transitionMatrix[length][pattern] :
                  LET action == transitionMatrix[length][pattern][j].k
                  IN /\ MapHas(globalActionCounter, action)
                     /\ MapGetOr(globalActionCounter, action, 0)
                           >= SuccessorCount(transitionMatrix[length],
                                             DOMAIN transitionMatrix[length], action)

\* a step of one installation keeps every entry of the persisted ivMap
IvMapEntriesKept ==
    installation' = installation =>
        \A data \in DOMAIN storedIvMap :
            data \in DOMAIN storedIvMap' /\ storedIvMap'[data] = storedIvMap[data]

\* every IV encryptDeterministic may use is the one persisted for its plaintext
IvPersistedBeforeUse ==
    \A data \in DOMAIN ivMap :
        data \in DOMAIN storedIvMap /\ storedIvMap[data] = ivMap[data]

\* C31: the persisted ivMap is append-only: no step of a session and no later
\* session changes or removes an entry it holds, and an IV is in persistent
\* storage before a ciphertext made with it can be sent.
IvMapAppendOnly == [](IvPersistedBeforeUse) /\ [][IvMapEntriesKept]_vars

\* the entries an upload has pushed or posted, followed by the counts it
\* still has to encrypt, are the counts of `history`
CountsOf(entries, rest, history) ==
    LET counts == CountActions(EmptyMap, history)
    IN /\ Len(entries) + Len(rest) = Len(counts)
       /\ \A k \in DOMAIN entries :
              /\ EntryAction(entries[k]) = counts[k].k
              /\ entries[k].count = counts[k].v
       /\ \A k \in DOMAIN rest : rest[k] = counts[Len(entries) + k]

\* C32: an upload posts the counts of the userHistory it found when it
\* started, whatever updates the model gets while the upload awaits an
\* encryption: the history an upload counts is the one of its start and stays
\* that one until the POST, and the entries are its counts.
UploadPostsCountsAtStart ==
    /\ [](/\ \A u \in Range(uploads) : CountsOf(u.interactions, << >>, u.history)
          /\ upload.pc = "encrypt" =>
                 CountsOf(upload.anonymizedData, upload.counts, upload.history))
    /\ [][/\ (upload.pc = "idle" /\ upload'.pc = "encrypt") => upload'.history = userHistory
          /\ (upload.pc = "encrypt" /\ upload'.pc = "encrypt") => upload'.history = upload.history
          /\ uploads' # uploads =>
                 uploads' = Append(uploads, uploads'[Len(uploads')])
                 /\ uploads'[Len(uploads')].history = upload.history]_vars

\* an upload was posted with the counts of a history the model has since
\* left, and another one is suspended with one entry pushed while the model
\* was updated
UploadPostsCountsAtStartWitness ==
    /\ uploads # << >>
    /\ upload.pc = "encrypt"
    /\ upload.anonymizedData # << >>
    /\ upload.history # userHistory
    /\ Len(updateLog) > Len(upload.history)

\* checkAndFetchGlobalModel is suspended inside one of its two loops: a map
\* was replaced by `new Map()` and the server's entries are not all set yet
InstallHalfApplied == initPc \in {"gmCounter", "gmTime"}

\* C33: no prediction is computed from a model in which an update or a
\* global-model install is only partly applied. Updates are applied in one
\* step; the prediction of a save notification is computed in the step that
\* publishes the record, which must not fall inside an install.
PredictReadsWholeModel ==
    [][notified' # notified => ~InstallHalfApplied]_vars

\* C38: every stored interaction is applied to the model once per session,
\* also when its save commits between the subscription of the model and the
\* read of the store by initialize(): a session never applies more updates
\* than the store holds rows.
AppliedOncePerSession == applied <= Len(dbRows)

\* the step that commits the row of a save runs updateModel on its record: the
\* model becomes the one updated with the record, and the component of the
\* prediction recomputed from it, if it is a tracked one, goes through the
\* cache step of preloadComponent
CommitRunsPipeline ==
    committed' # committed =>
        LET i == committed'[Len(committed')]
            record == saves[i].interaction
            m == updateTransitionMatrix(Model, record, record.timestamp)
            nextAction == predictNextAction(m, actionComponentMap, now, now)
        IN /\ committed' = Append(committed, i)
           /\ notified' = Append(notified, i)
           /\ userHistory' = m.userHistory
           /\ transitionMatrix' = m.transitionMatrix
           /\ globalActionCounter' = m.globalActionCounter
           /\ timePatterns' = m.timePatterns
           /\ applied' = applied + 1
           /\ \A id \in Components :
                  cacheSteps'[id] =
                      IF id = nextAction.componentId /\ MapHas(trackedComponents, id)
                      THEN cacheSteps[id] + 1 ELSE cacheSteps[id]

\* a step that applies updates without committing a row (the replay of
\* initialize) applies no row whose save was notified in this session
ReplaySkipsNotified ==
    (applied' > applied /\ committed' = committed) =>
        \A k \in DOMAIN initData.rows : saves[committed[k]].session # session

\* C34: every tracked interaction of a bound action whose transaction commits
\* gets its model update, then a recomputed prediction and, when the predicted
\* action is bound to a tracked component, a preload of that component; and
\* the record gets no second update in the session.
SavePipelineRunsOnce == [][CommitRunsPipeline /\ ReplaySkipsNotified]_vars

\* C35: getAllInteractions settles, with the records or with an error for its
\* caller, also when a stored row fails to decrypt: initialize() is never left
\* suspended on a promise that nothing will settle.
ListAlwaysSettles == initPc # "stalled"

\* the saves whose indexedDB.open was requested and whose row is not committed
SavesPastEncryption == (Range(openQueue) \cup Range(txQueue)) \ {GetAll}

\* C36: every row of the store has its two ciphertexts, their two IVs and the
\* timestamp; a save reaches indexedDB.open only with both fields encrypted;
\* and a save one of whose encryptions failed has no row and was not published.
RowsAreWhole ==
    /\ \A k \in DOMAIN dbRows :
           /\ dbRows[k].actionType # None /\ dbRows[k].actionTypeIV # None
           /\ dbRows[k].componentId # None /\ dbRows[k].componentIdIV # None
           /\ dbRows[k].timestamp \in 0..MaxClock
    /\ \A i \in SavesPastEncryption :
           saves[i].encryptedActionType # None /\ saves[i].encryptedComponentId # None
    /\ \A i \in DOMAIN saves :
           saves[i].error = EncryptFailure =>
               i \notin Range(committed) /\ i \notin Range(notified)

\* one save failed in an encryption and another one committed its row
RowsAreWholeWitness ==
    /\ \E i \in DOMAIN saves : saves[i].error = EncryptFailure
    /\ dbRows # << >>
    /\ Len(committed) = Len(dbRows)

\* the step in which checkAndFetchGlobalModel reaches its catch: the fetch
\* threw or answered an error status, or a key of the answer did not decrypt
FetchFails ==
    \/ initPc = "gmFetch" /\ initPc' = "ready" /\ ~gmInstalled'
    \/ /\ initPc = "gmCounter" /\ initData' # initData
       /\ decrypt(Head(initData.counter).ct, Head(initData.counter).iv) = DecryptionFailure
    \/ /\ initPc = "gmTime" /\ initData' # initData
       /\ decrypt(Head(initData.time).ct, Head(initData.time).iv) = DecryptionFailure

\* the model the replay of the stored rows built, which is the model the fetch
\* started from when no interaction is saved meanwhile
ReplayedModel == processHistoricalData(NewModel, DecryptedRecords(dbRows))

\* C37: when the global-model fetch fails at any step, GlobalActionCounter and
\* TimePatterns are what they were before the fetch started, and
\* initialization goes on to its end.
FailedFetchKeepsModel ==
    [][FetchFails =>
           /\ globalActionCounter' = ReplayedModel.globalActionCounter
           /\ timePatterns' = ReplayedModel.timePatterns
           /\ initPc' = "ready"]_vars

\* the key of the answer whose decryption the install is awaiting, decrypted
InstallingAction(entries) == decrypt(Head(entries).ct, Head(entries).iv)

\* C39: the install of a global model adds up the server counts of all the
\* keys that decrypt to one action: each key of globalActionCounter adds its
\* count to the counter of its action, each key of timePatterns adds its hour
\* counts to those of its action (both maps start empty at the install).
InstallSumsDuplicateKeys ==
    [][/\ (/\ initPc = "gmCounter" /\ initData' # initData
           /\ InstallingAction(initData.counter) # DecryptionFailure) =>
              MapGetOr(globalActionCounter', InstallingAction(initData.counter), 0)
                  = MapGetOr(globalActionCounter, InstallingAction(initData.counter), 0)
                       + Head(initData.counter).value
       /\ (/\ initPc = "gmTime" /\ initData' # initData
           /\ InstallingAction(initData.time) # DecryptionFailure) =>
              LET action == InstallingAction(initData.time)
                  before == MapGetOr(timePatterns, action, EmptyFn)
                  after == MapGetOr(timePatterns', action, EmptyFn)
                  hours == Head(initData.time).value
              IN \A hour \in DOMAIN hours \cup DOMAIN before :
                     FnGetOr(after, hour, 0)
                         = FnGetOr(before, hour, 0) + FnGetOr(hours, hour, 0)]_vars

====
